---- MODULE Spec2Model ----
(***************************************************************************)
(* IBM PS/2 ESDI fixed-disk adapter (MCA), src/src/disk/hdc_esdi_mca.c.   *)
(*                                                                         *)
(* The adapter state esdi_t is the record `dev`; the timer, the interrupt  *)
(* line of the PIC, the disk images and the DMA channel are the external   *)
(* collaborators the handlers act on.  Every handler of the source is one  *)
(* action: esdi_write (control and attention register), esdi_writew,       *)
(* esdi_read, esdi_readw, esdi_reset and the timer callback esdi_callback. *)
(* Times are in eighths of a microsecond, so that the 390.625 us sector    *)
(* transfer time is the integer 3125.                                      *)
(***************************************************************************)
EXTENDS Integers, Sequences, FiniteSets, TLC

(* ---------------------------------------------------------------------- *)
(* Program constants                                                      *)
(* ---------------------------------------------------------------------- *)
ESDI_TIME == 500
STATUS_DMA_ENA == 128
STATUS_IRQ_PENDING == 64
STATUS_CMD_IN_PROGRESS == 32
STATUS_BUSY == 16
STATUS_STATUS_OUT_FULL == 8
STATUS_CMD_IR_FULL == 4
STATUS_TRANSFER_REQ == 2
STATUS_IRQ == 1

CTRL_RESET == 128
CTRL_DMA_ENA == 2
CTRL_IRQ_ENA == 1

IRQ_HOST_ADAPTER == 224
IRQ_CMD_COMPLETE_SUCCESS == 1
IRQ_RESET_COMPLETE == 10
IRQ_DATA_TRANSFER_READY == 11
IRQ_CMD_COMPLETE_FAILURE == 12

ATTN_DEVICE_SEL == 224
ATTN_HOST_ADAPTER == 224
ATTN_DEVICE_0 == 0
ATTN_DEVICE_1 == 32
ATTN_REQ_MASK == 15
ATTN_CMD_REQ == 1
ATTN_EOI == 2
ATTN_RESET == 4

CMD_SIZE_4 == 16384
CMD_DEVICE_SEL == 224
CMD_MASK == 31
CMD_READ == 1
CMD_WRITE == 2
CMD_READ_VERIFY == 3
CMD_WRITE_VERIFY == 4
CMD_SEEK == 5
CMD_PARK_HEADS == 6
CMD_GET_DEV_STATUS == 8
CMD_GET_DEV_CONFIG == 9
CMD_GET_POS_INFO == 10
CMD_WRITE_SECTOR_BUFFER == 16
CMD_READ_SECTOR_BUFFER == 17
CMD_12 == 18
CMD_15 == 21
CMD_FORMAT_UNIT == 22
CMD_FORMAT_PREPARE == 23
STATUS_DEVICE_HOST_ADAPTER == 224

\* sector_buffer[256][256]: the number of scratch sectors
SECTOR_BUFFER_SECTORS == 256
\* rba = ... & 0x0fffffff
RBA_MASK == 268435455

(* ---------------------------------------------------------------------- *)
(* Bounds of the model                                                    *)
(* ---------------------------------------------------------------------- *)
\* Words of one sector: the code's data[256], scaled down.
SectorWords == 2
\* Largest sector count of a transfer the guest asks for.
MaxCount == 2

\* the lowest POS port a write of the MCA bus is taken from (0x102)
POS_FIRST_WRITABLE == 258

(* ---------------------------------------------------------------------- *)
(* Machine arithmetic                                                     *)
(* ---------------------------------------------------------------------- *)
Pow2(n) == 2 ^ n
U8(x) == x % 256
U16(x) == x % 65536
\* A uint32 from 2^31 up is held as its two's complement (0xffffffff is -1):
\* the only wrap the adapter's arithmetic can take is rba - 1 at rba = 0, and
\* % and \div (floor division) give the low bits and the shifted bits of such
\* a number as they do for the unsigned one.
U32(x) == x

RECURSIVE BitAnd(_, _)
BitAnd(a, b) ==
    IF a = 0 \/ b = 0 THEN 0
    ELSE (a % 2) * (b % 2) + 2 * BitAnd(a \div 2, b \div 2)

BitOr(a, b) == a + b - BitAnd(a, b)
\* x & ~m
BitClear(x, m) == x - BitAnd(x, m)
Shl(x, n) == x * Pow2(n)
Shr(x, n) == x \div Pow2(n)

STATUS_LEN(x) == Shl(x, 8)
STATUS_DEVICE(x) == Shl(x, 5)

(* ---------------------------------------------------------------------- *)
(* Drives, images and the DMA channel                                     *)
(* ---------------------------------------------------------------------- *)
\* drive_t of the two drives as esdi_init fills it: drive 0 has an image,
\* drive 1 has none.  `sectors` is hdd_image_get_last_sector of the image;
\* `time` is the cost the drive timing model returns for one sector and
\* `bad` the sectors on which image I/O fails.
NoDrive == [present |-> 0, spt |-> 0, hpc |-> 0, tracks |-> 0, sectors |-> 0,
            time |-> 0, bad |-> {}]
Drive0 == [present |-> 1, spt |-> 36, hpc |-> 8, tracks |-> 245, sectors |-> 70559,
           time |-> 0, bad |-> {300}]
DriveConfigs == { <<Drive0, NoDrive>> }

\* The image as the guest finds it: every word of every sector differs from
\* its neighbours.
InitWord(d, s, j) == U16(s * SectorWords + j + 1 + d)
InitSector(d, s) == [j \in 0 .. SectorWords - 1 |-> InitWord(d, s, j)]
ZeroSector == [j \in 0 .. SectorWords - 1 |-> 0]

\* The n-th word (from 0) the DMA channel hands to the adapter in a command.
DmaWord(n) == 20480 + n

\* Words the DMA channel moves in one callback before it answers DMA_NODATA.
Bursts == 0 .. (SectorWords * MaxCount)

(* ---------------------------------------------------------------------- *)
(* State                                                                  *)
(* ---------------------------------------------------------------------- *)
VARIABLES
    dev,          \* esdi_t
    drives,       \* esdi_t.drives
    timer,        \* esdi_t.timer: 0 stopped, else the delay it was started with
    irq_line,     \* the level the adapter last drove on IRQ 14 of the PIC
    image,        \* sectors written to the images: <<drive, sector>> -> words
    zeroed,       \* drives whose image was zero-filled
    fatal,        \* "none", or the reason fatal() ended the emulator with
    io_handlers,  \* 1 while the register handlers are installed at ESDI_IOADDR_PRI, else 0
    dma_out,      \* words the DMA channel took from the adapter in this command
    dma_in,       \* number of words the DMA channel gave the adapter in this command
    img_touched,  \* an image sector was read or written in this command
    dtr_latched,  \* a data-transfer-ready interrupt was latched in this command
    start_rba,    \* the block address phase 0 of this command decoded
    resumed,      \* a phase-1 callback of this command went on in the middle of a sector
    err,          \* the code pair of the error this command ended with, or <<>>
    ctrl_from,    \* what a write of the control register found, while it is the last step
    prog          \* the commands the guest's driver issues

vars == <<dev, drives, timer, irq_line, image, zeroed, fatal, io_handlers, dma_out, dma_in,
          img_touched, dtr_latched, start_rba, resumed, err, ctrl_from, prog>>

\* The handlers are written as functions of the whole machine.
World ==
    [dev |-> dev, drives |-> drives, timer |-> timer, irq_line |-> irq_line,
     image |-> image, zeroed |-> zeroed, fatal |-> fatal, io_handlers |-> io_handlers,
     dma_out |-> dma_out,
     dma_in |-> dma_in, img_touched |-> img_touched, dtr_latched |-> dtr_latched,
     start_rba |-> start_rba, resumed |-> resumed, err |-> err]

\* no write of the control register is on record
NoControlWrite == [written |-> FALSE, basic_ctrl |-> 0, in_reset |-> 0, timer |-> 0, irq_line |-> 0]

CommitMachine(w) ==
    /\ dev' = w.dev
    /\ drives' = w.drives
    /\ timer' = w.timer
    /\ irq_line' = w.irq_line
    /\ image' = w.image
    /\ zeroed' = w.zeroed
    /\ fatal' = w.fatal
    /\ io_handlers' = w.io_handlers
    /\ dma_out' = w.dma_out
    /\ dma_in' = w.dma_in
    /\ img_touched' = w.img_touched
    /\ dtr_latched' = w.dtr_latched
    /\ start_rba' = w.start_rba
    /\ resumed' = w.resumed
    /\ err' = w.err
    /\ prog' = prog

Commit(w) == CommitMachine(w) /\ ctrl_from' = NoControlWrite

Ticks(us) == us * 8

\* calloc, then esdi_init of the integrated controller
InitDev ==
    [basic_ctrl |-> 0, status |-> STATUS_BUSY, irq_status |-> 255,
     irq_ena_disable |-> 0, irq_in_progress |-> 0, cmd_req_in_progress |-> 0,
     cmd_pos |-> 0, cmd_data |-> [i \in 0 .. 3 |-> 0], cmd_dev |-> 0,
     status_pos |-> 0, status_len |-> 0, status_data |-> [i \in 0 .. 8 |-> 0],
     data_pos |-> 0, data |-> ZeroSector, sector_buffer |-> <<>>,
     sector_pos |-> 0, sector_count |-> 0, command |-> 0, cmd_state |-> 0,
     in_reset |-> 1, rba |-> 0, dma |-> 0,
     pos_regs |-> [i \in 0 .. 7 |-> IF i = 0 THEN 159 ELSE IF i = 1 THEN 223 ELSE 0]]

\* esdi_init starts the reset delay and then hands the timer to timer_add,
\* which may or may not keep it running.
Boot ==
    /\ dev = InitDev
    /\ drives \in DriveConfigs
    /\ timer \in {0, Ticks(ESDI_TIME * 50)}
    /\ irq_line = 0
    /\ image = <<>>
    /\ zeroed = {}
    /\ fatal = "none"
    /\ io_handlers = 0
    /\ dma_out = <<>>
    /\ dma_in = 0
    /\ img_touched = FALSE
    /\ dtr_latched = FALSE
    /\ start_rba = 0
    /\ resumed = FALSE
    /\ err = <<>>
    /\ ctrl_from = NoControlWrite

(* ---------------------------------------------------------------------- *)
(* Interrupt line and timer                                               *)
(* ---------------------------------------------------------------------- *)
set_irq(w) ==
    LET w1 == [w EXCEPT !.dev.irq_ena_disable = 1]
    IN  IF BitAnd(w1.dev.basic_ctrl, CTRL_IRQ_ENA) # 0
        THEN [w1 EXCEPT !.irq_line = 1]
        ELSE w1

clear_irq(w) ==
    LET w1 == [w EXCEPT !.dev.irq_ena_disable = 0]
    IN  IF BitAnd(w1.dev.basic_ctrl, CTRL_IRQ_ENA) # 0
        THEN [w1 EXCEPT !.irq_line = 0]
        ELSE w1

\* A line that follows the enable bit alone.
update_irq_enabled(w) ==
    [w EXCEPT !.irq_line = IF BitAnd(w.dev.basic_ctrl, CTRL_IRQ_ENA) # 0 THEN 1 ELSE 0]

update_irq(w) ==
    LET set == IF BitAnd(w.dev.basic_ctrl, CTRL_IRQ_ENA) # 0 /\ w.dev.irq_ena_disable # 0
               THEN 1 ELSE 0
    IN  [w EXCEPT !.irq_line = set]

\* A timer that is never started.
set_callback_stop(w, callback) == [w EXCEPT !.timer = 0]

esdi_mca_set_callback(w, callback) ==
    IF callback = 0
    THEN [w EXCEPT !.timer = 0]
    ELSE [w EXCEPT !.timer = callback]

\* 390.625 us per sector
esdi_mca_get_xfer_time(size) == 3125 * size

Fatal(w, why) == [w EXCEPT !.fatal = why]

(* ---------------------------------------------------------------------- *)
(* Status blocks                                                          *)
(* ---------------------------------------------------------------------- *)
\* An error that loads its status block but never tells the guest.
error_status_quiet(w, code1, code2) ==
    [w EXCEPT !.dev.status_len = 9,
              !.dev.status_data = [i \in 0 .. 8 |->
                                     IF i = 1 THEN code1 ELSE IF i = 2 THEN code2 ELSE 0],
              !.err = <<code1, code2>>]

\* The body the four error functions share.
error_status(w, code1, code2) ==
    LET d == w.dev
        sd == [i \in 0 .. 8 |->
                 IF i = 0 THEN U16(BitOr(BitOr(d.command, STATUS_LEN(9)), d.cmd_dev))
                 ELSE IF i = 1 THEN code1
                 ELSE IF i = 2 THEN code2
                 ELSE 0]
    IN  set_irq([w EXCEPT !.dev.status_len = 9,
                          !.dev.status_data = sd,
                          !.dev.status = BitOr(STATUS_IRQ, STATUS_STATUS_OUT_FULL),
                          !.dev.irq_status = U8(BitOr(d.cmd_dev, IRQ_CMD_COMPLETE_FAILURE)),
                          !.dev.irq_in_progress = 1,
                          !.err = <<code1, code2>>])

\* An unsupported command that is tried again, and an absent drive that is
\* not noticed.
unsupported_retry(w) == esdi_mca_set_callback(error_status(w, 3843, 2), Ticks(ESDI_TIME))
not_present_ignored(w) == w

cmd_unsupported(w) == error_status(w, 3843, 2)
device_not_present(w) == error_status(w, 3089, 11)
rba_out_of_range(w) == error_status(w, 3585, 7)
defective_block(w) == error_status(w, 3585, 9)

complete_command_status(w) ==
    LET d == w.dev
        devno == IF d.cmd_dev = ATTN_DEVICE_0 THEN 0 ELSE 1
        sd == [i \in 0 .. 8 |->
                 IF i = 0 THEN U16(BitOr(BitOr(d.command, STATUS_LEN(7)), STATUS_DEVICE(devno)))
                 ELSE IF i = 1 THEN 0
                 ELSE IF i = 2 THEN 6400
                 ELSE IF i = 3 THEN 0
                 ELSE IF i = 4 THEN U32(d.rba - 1) % 65536
                 ELSE IF i = 5 THEN U16(Shr(U32(d.rba - 1), 8))
                 ELSE IF i = 6 THEN 0
                 ELSE d.status_data[i]]
    IN  [w EXCEPT !.dev.status_len = 7, !.dev.status_data = sd]

\* status = IRQ | OUT_FULL, irq_status = cmd_dev | SUCCESS, irq_in_progress, set_irq
complete_success(w) ==
    set_irq([w EXCEPT !.dev.status = BitOr(STATUS_IRQ, STATUS_STATUS_OUT_FULL),
                      !.dev.irq_status = U8(BitOr(w.dev.cmd_dev, IRQ_CMD_COMPLETE_SUCCESS)),
                      !.dev.irq_in_progress = 1])

\* status = IRQ | CMD_IN_PROGRESS | TRANSFER_REQ, irq_status = who | DATA_TRANSFER_READY
transfer_ready(w, who) ==
    set_irq([w EXCEPT !.dev.status = BitOr(BitOr(STATUS_IRQ, STATUS_CMD_IN_PROGRESS),
                                           STATUS_TRANSFER_REQ),
                      !.dev.irq_status = U8(BitOr(who, IRQ_DATA_TRANSFER_READY)),
                      !.dev.irq_in_progress = 1,
                      !.dtr_latched = TRUE])

(* ---------------------------------------------------------------------- *)
(* Images and the scratch area                                            *)
(* ---------------------------------------------------------------------- *)
\* An image without an end.
unbounded_last_sector(w, dn) == RBA_MASK + SECTOR_BUFFER_SECTORS

hdd_image_get_last_sector(w, dn) == w.drives[dn + 1].sectors

\* what hdd_image_read delivers
ImageSector(w, dn, s) ==
    IF <<dn, s>> \in DOMAIN w.image THEN w.image[<<dn, s>>]
    ELSE IF dn \in w.zeroed THEN ZeroSector
    ELSE InitSector(dn, s)

\* An image that takes a sector and stores nothing of it.
ImageWriteBlank(w, dn, s, words) ==
    [x \in (DOMAIN w.image) \cup {<<dn, s>>} |->
        IF x = <<dn, s>> THEN ZeroSector ELSE w.image[x]]

\* hdd_image_write of one sector
ImageWrite(w, dn, s, words) ==
    [x \in (DOMAIN w.image) \cup {<<dn, s>>} |->
        IF x = <<dn, s>> THEN words ELSE w.image[x]]

\* An image that a zero-fill leaves as it was.
image_zero_skipped(w, dn) == w

\* hdd_image_zero of the whole image
ImageZero(w, dn) ==
    [w EXCEPT !.image = [x \in {y \in DOMAIN w.image : y[1] # dn} |-> w.image[x]],
              !.zeroed = @ \cup {dn},
              !.img_touched = TRUE]

ScratchSector(d, k) ==
    IF k \in DOMAIN d.sector_buffer THEN d.sector_buffer[k] ELSE ZeroSector

ScratchWrite(d, k, words) ==
    [x \in (DOMAIN d.sector_buffer) \cup {k} |->
        IF x = k THEN words ELSE d.sector_buffer[x]]

IsDriveTarget(w) == w.dev.cmd_dev = ATTN_DEVICE_0 \/ w.dev.cmd_dev = ATTN_DEVICE_1
DriveNo(w) == IF w.dev.cmd_dev = ATTN_DEVICE_0 THEN 0 ELSE 1
SelDrive(w) == w.drives[DriveNo(w) + 1]
\* A transfer that does not wait for the DMA enable.
DmaNotAwaited(w) == TRUE
DmaEnabled(w) == BitAnd(w.dev.basic_ctrl, CTRL_DMA_ENA) # 0
\* A query that runs over an interrupt the guest has not ended.
irq_never_busy(w) == FALSE

IrqBusy(w) == BitAnd(w.dev.status, STATUS_IRQ) # 0 \/ w.dev.irq_in_progress # 0
\* rba = (cmd_data[2] | (cmd_data[3] << 16)) & 0x0fffffff
DecodeRba(d) == BitAnd(BitOr(d.cmd_data[2], Shl(d.cmd_data[3], 16)), RBA_MASK)
Min(a, b) == IF a < b THEN a ELSE b

\* A phase-1 callback that finds data_pos inside a sector goes on from there.
MidSector(w) ==
    IF w.dev.sector_pos < w.dev.sector_count /\ w.dev.data_pos > 0
    THEN [w EXCEPT !.resumed = TRUE]
    ELSE w

(* ---------------------------------------------------------------------- *)
(* esdi_callback: CMD_READ and 0x15                                       *)
(* ---------------------------------------------------------------------- *)
\* The transfer loop of phase 1; b is the number of words the DMA channel
\* still takes in this callback, cmd_time the time accumulated in it.
\* A transfer loop that starts the sector again after the DMA channel stalled.
RECURSIVE read_loop_restart(_, _, _)
read_loop_restart(w, cmd_time, b) ==
    LET d == w.dev
        w1 == [w EXCEPT !.dev.data = ImageSector(w, DriveNo(w), d.rba),
                        !.dev.data_pos = 0,
                        !.img_touched = TRUE]
        t1 == cmd_time + SelDrive(w).time + esdi_mca_get_xfer_time(1)
        n == Min(b, SectorWords)
        w2 == [w1 EXCEPT !.dma_out = @ \o [k \in 1 .. n |-> w1.dev.data[k - 1]],
                         !.dev.data_pos = n]
    IN  IF d.sector_pos < d.sector_count
        THEN IF b < SectorWords
             THEN esdi_mca_set_callback(w2, Ticks(ESDI_TIME) + t1)
             ELSE read_loop_restart([w2 EXCEPT !.dev.data_pos = 0,
                                               !.dev.sector_pos = @ + 1,
                                               !.dev.rba = U32(@ + 1)],
                                    t1, b - n)
        ELSE esdi_mca_set_callback([w EXCEPT !.dev.status = STATUS_CMD_IN_PROGRESS,
                                             !.dev.cmd_state = 2],
                                   Ticks(ESDI_TIME))

RECURSIVE read_loop(_, _, _)
read_loop(w, cmd_time, b) ==
    LET d == w.dev
        dn == DriveNo(w)
        drv == SelDrive(w)
    IN  IF d.sector_pos < d.sector_count
        THEN IF d.data_pos = 0 /\ d.rba >= drv.sectors
             THEN Fatal(w, "Read past end of drive")
             ELSE IF d.data_pos = 0 /\ d.rba \in drv.bad
             THEN defective_block([w EXCEPT !.img_touched = TRUE])
             ELSE LET w1 == IF d.data_pos = 0
                            THEN [w EXCEPT !.dev.data = ImageSector(w, dn, d.rba),
                                           !.img_touched = TRUE]
                            ELSE w
                      t1 == IF d.data_pos = 0
                            THEN cmd_time + drv.time + esdi_mca_get_xfer_time(1)
                            ELSE cmd_time
                      left == SectorWords - d.data_pos
                      n == Min(b, left)
                      w2 == [w1 EXCEPT
                               !.dma_out = @ \o [k \in 1 .. n |-> w1.dev.data[d.data_pos + k - 1]],
                               !.dev.data_pos = d.data_pos + n]
                  IN  IF b < left
                      THEN esdi_mca_set_callback(w2, Ticks(ESDI_TIME) + t1)
                      ELSE read_loop([w2 EXCEPT !.dev.data_pos = 0,
                                                !.dev.sector_pos = @ + 1,
                                                !.dev.rba = U32(@ + 1)],
                                     t1, b - n)
        ELSE esdi_mca_set_callback([w EXCEPT !.dev.status = STATUS_CMD_IN_PROGRESS,
                                             !.dev.cmd_state = 2],
                                   cmd_time)

read_phase0(w) ==
    LET w1 == IF w.dev.command = CMD_READ
              THEN [w EXCEPT !.dev.rba = DecodeRba(w.dev)]
              ELSE w
        w2 == [w1 EXCEPT !.dev.sector_pos = 0,
                         !.dev.sector_count = w.dev.cmd_data[1],
                         !.start_rba = w1.dev.rba]
    IN  IF w2.dev.rba + w2.dev.sector_count > hdd_image_get_last_sector(w, DriveNo(w))
        THEN rba_out_of_range(w2)
        ELSE LET w3 == transfer_ready(w2, w.dev.cmd_dev)
                 w4 == esdi_mca_set_callback([w3 EXCEPT !.dev.cmd_state = 1],
                                             Ticks(ESDI_TIME))
             IN  [w4 EXCEPT !.dev.data_pos = 0]

cb_read(w, b) ==
    IF ~IsDriveTarget(w) THEN cmd_unsupported(w)
    ELSE IF SelDrive(w).present = 0 THEN device_not_present(w)
    ELSE IF w.dev.cmd_state = 0 THEN read_phase0(w)
    ELSE IF w.dev.cmd_state = 1
         THEN IF ~DmaEnabled(w)
              THEN esdi_mca_set_callback(w, Ticks(ESDI_TIME))
              ELSE read_loop(MidSector(w), 0, b)
    ELSE IF w.dev.cmd_state = 2 THEN complete_success(complete_command_status(w))
    ELSE w

(* ---------------------------------------------------------------------- *)
(* esdi_callback: CMD_WRITE and CMD_WRITE_VERIFY                          *)
(* ---------------------------------------------------------------------- *)
RECURSIVE write_loop(_, _, _)
write_loop(w, cmd_time, b) ==
    LET d == w.dev
        dn == DriveNo(w)
        drv == SelDrive(w)
    IN  IF d.sector_pos < d.sector_count
        THEN LET left == SectorWords - d.data_pos
                 n == Min(b, left)
                 w1 == [w EXCEPT
                          !.dev.data = [j \in 0 .. SectorWords - 1 |->
                                          IF j >= d.data_pos /\ j < d.data_pos + n
                                          THEN U16(DmaWord(w.dma_in + (j - d.data_pos)))
                                          ELSE d.data[j]],
                          !.dev.data_pos = d.data_pos + n,
                          !.dma_in = @ + n]
             IN  IF b < left
                 THEN esdi_mca_set_callback(w1, Ticks(ESDI_TIME) + cmd_time)
                 ELSE IF d.rba >= drv.sectors
                 THEN Fatal(w1, "Write past end of drive")
                 ELSE IF d.rba \in drv.bad
                 THEN defective_block([w1 EXCEPT !.img_touched = TRUE])
                 ELSE write_loop([w1 EXCEPT !.image = ImageWrite(w, dn, d.rba, w1.dev.data),
                                            !.img_touched = TRUE,
                                            !.dev.rba = U32(@ + 1),
                                            !.dev.sector_pos = @ + 1,
                                            !.dev.data_pos = 0],
                                 cmd_time + drv.time + esdi_mca_get_xfer_time(1),
                                 b - n)
        ELSE esdi_mca_set_callback([w EXCEPT !.dev.status = STATUS_CMD_IN_PROGRESS,
                                             !.dev.cmd_state = 2],
                                   cmd_time)

write_phase0(w) ==
    LET w2 == [w EXCEPT !.dev.rba = DecodeRba(w.dev),
                        !.dev.sector_pos = 0,
                        !.dev.sector_count = w.dev.cmd_data[1],
                        !.start_rba = DecodeRba(w.dev)]
    IN  IF w2.dev.rba + w2.dev.sector_count > hdd_image_get_last_sector(w, DriveNo(w))
        THEN rba_out_of_range(w2)
        ELSE LET w3 == transfer_ready(w2, w.dev.cmd_dev)
                 w4 == esdi_mca_set_callback([w3 EXCEPT !.dev.cmd_state = 1],
                                             Ticks(ESDI_TIME))
             IN  [w4 EXCEPT !.dev.data_pos = 0]

cb_write(w, b) ==
    IF ~IsDriveTarget(w) THEN cmd_unsupported(w)
    ELSE IF SelDrive(w).present = 0 THEN device_not_present(w)
    ELSE IF w.dev.cmd_state = 0 THEN write_phase0(w)
    ELSE IF w.dev.cmd_state = 1
         THEN IF ~DmaEnabled(w)
              THEN esdi_mca_set_callback(w, Ticks(ESDI_TIME))
              ELSE write_loop(MidSector(w), 0, b)
    ELSE IF w.dev.cmd_state = 2 THEN complete_success(complete_command_status(w))
    ELSE w

(* ---------------------------------------------------------------------- *)
(* esdi_callback: the commands without a data transfer                    *)
(* ---------------------------------------------------------------------- *)
cb_read_verify(w) ==
    IF ~IsDriveTarget(w) THEN cmd_unsupported(w)
    ELSE IF SelDrive(w).present = 0 THEN device_not_present(w)
    ELSE IF w.dev.cmd_state = 0
         THEN LET w1 == [w EXCEPT !.dev.rba = DecodeRba(w.dev),
                                  !.dev.sector_count = w.dev.cmd_data[1],
                                  !.start_rba = DecodeRba(w.dev)]
              IN  IF w1.dev.rba + w1.dev.sector_count
                       > hdd_image_get_last_sector(w, DriveNo(w))
                  THEN rba_out_of_range(w1)
                  ELSE [esdi_mca_set_callback(w1,
                            Ticks(ESDI_TIME) + SelDrive(w).time * w1.dev.sector_count)
                        EXCEPT !.dev.cmd_state = 1]
    ELSE IF w.dev.cmd_state = 1 THEN complete_success(complete_command_status(w))
    ELSE w

\* The range check uses rba and sector_count as they are when the callback
\* runs, before phase 0 decodes the address of the seek.
cb_seek(w) ==
    IF ~IsDriveTarget(w) THEN cmd_unsupported(w)
    ELSE IF SelDrive(w).present = 0 THEN device_not_present(w)
    ELSE IF w.dev.rba + w.dev.sector_count > hdd_image_get_last_sector(w, DriveNo(w))
         THEN rba_out_of_range(w)
    ELSE IF w.dev.cmd_state = 0
         THEN [esdi_mca_set_callback([w EXCEPT !.dev.rba = DecodeRba(w.dev),
                                               !.start_rba = DecodeRba(w.dev)],
                                     Ticks(ESDI_TIME) + SelDrive(w).time)
               EXCEPT !.dev.cmd_state = 1]
    ELSE IF w.dev.cmd_state = 1 THEN complete_success(complete_command_status(w))
    ELSE w

cb_park_heads(w) ==
    IF ~IsDriveTarget(w) THEN cmd_unsupported(w)
    ELSE IF SelDrive(w).present = 0 THEN device_not_present(w)
    ELSE IF w.dev.cmd_state = 0
         THEN [esdi_mca_set_callback([w EXCEPT !.dev.rba = 0, !.start_rba = 0],
                                     Ticks(ESDI_TIME) + SelDrive(w).time)
               EXCEPT !.dev.cmd_state = 1]
    ELSE IF w.dev.cmd_state = 1 THEN complete_success(complete_command_status(w))
    ELSE w

\* A status block of n words whose word 0 is `word0`, the rest from `rest`.
LoadStatus(w, n, sd) ==
    [w EXCEPT !.dev.status_len = n,
              !.dev.status_data = [i \in 0 .. 8 |->
                                     IF i \in DOMAIN sd THEN U16(sd[i]) ELSE @[i]]]

cb_get_dev_status(w) ==
    IF ~IsDriveTarget(w) THEN cmd_unsupported(w)
    ELSE IF SelDrive(w).present = 0 THEN device_not_present(w)
    ELSE IF IrqBusy(w) THEN Fatal(w, "IRQ in progress")
    ELSE complete_success(LoadStatus(w, 9,
            [i \in 0 .. 8 |->
               IF i = 0 THEN BitOr(BitOr(CMD_GET_DEV_STATUS, STATUS_LEN(9)),
                                   STATUS_DEVICE_HOST_ADAPTER)
               ELSE IF i = 2 THEN 6400
               ELSE 0]))

cb_get_dev_config(w) ==
    IF w.dev.cmd_dev = ATTN_HOST_ADAPTER
    THEN IF IrqBusy(w) THEN Fatal(w, "IRQ in progress")
         ELSE complete_success(LoadStatus(w, 6,
                 [i \in 0 .. 5 |->
                    IF i = 0 THEN BitOr(BitOr(CMD_GET_DEV_CONFIG, STATUS_LEN(6)),
                                        STATUS_DEVICE_HOST_ADAPTER)
                    ELSE IF i = 3 THEN 12800
                    ELSE 0]))
    ELSE IF ~IsDriveTarget(w) THEN cmd_unsupported(w)
    ELSE IF SelDrive(w).present = 0 THEN device_not_present(w)
    ELSE IF IrqBusy(w) THEN Fatal(w, "IRQ in progress")
    ELSE LET drv == SelDrive(w)
         IN  complete_success(LoadStatus(w, 6,
                 [i \in 0 .. 5 |->
                    IF i = 0 THEN BitOr(BitOr(CMD_GET_DEV_CONFIG, STATUS_LEN(6)),
                                        STATUS_DEVICE_HOST_ADAPTER)
                    ELSE IF i = 1 THEN 16
                    ELSE IF i = 2 THEN BitAnd(drv.sectors, 65535)
                    ELSE IF i = 3 THEN Shr(drv.sectors, 16)
                    ELSE IF i = 4 THEN drv.tracks
                    ELSE BitOr(drv.hpc, Shl(drv.spt, 16))]))

\* status = IRQ | OUT_FULL, irq_status = HOST_ADAPTER | SUCCESS
adapter_success(w, st) ==
    set_irq([w EXCEPT !.dev.status = st,
                      !.dev.irq_status = BitOr(IRQ_HOST_ADAPTER, IRQ_CMD_COMPLETE_SUCCESS),
                      !.dev.irq_in_progress = 1])

cb_get_pos_info(w) ==
    IF w.dev.cmd_dev # ATTN_HOST_ADAPTER THEN cmd_unsupported(w)
    ELSE IF IrqBusy(w) THEN Fatal(w, "IRQ in progress")
    ELSE adapter_success(LoadStatus(w, 5,
            [i \in 0 .. 4 |->
               IF i = 0 THEN BitOr(BitOr(CMD_GET_POS_INFO, STATUS_LEN(5)),
                                   STATUS_DEVICE_HOST_ADAPTER)
               ELSE IF i = 1 THEN BitOr(w.dev.pos_regs[1], Shl(w.dev.pos_regs[0], 8))
               ELSE IF i = 2 THEN BitOr(w.dev.pos_regs[3], Shl(w.dev.pos_regs[2], 8))
               ELSE 255]),
            BitOr(STATUS_IRQ, STATUS_STATUS_OUT_FULL))

cb_cmd_12(w) ==
    IF w.dev.cmd_dev # ATTN_HOST_ADAPTER THEN cmd_unsupported(w)
    ELSE IF IrqBusy(w) THEN Fatal(w, "IRQ in progress")
    ELSE adapter_success(LoadStatus(w, 2,
            [i \in 0 .. 1 |->
               IF i = 0 THEN BitOr(BitOr(CMD_12, STATUS_LEN(5)), STATUS_DEVICE_HOST_ADAPTER)
               ELSE 0]),
            BitOr(STATUS_IRQ, STATUS_STATUS_OUT_FULL))

(* ---------------------------------------------------------------------- *)
(* esdi_callback: the sector-buffer commands 0x10 and 0x11                *)
(* ---------------------------------------------------------------------- *)
\* A sector-buffer command that takes any count.
sector_buffer_any_count(w, why) ==
    LET w1 == [w EXCEPT !.dev.sector_pos = 0, !.dev.sector_count = w.dev.cmd_data[1]]
        w3 == transfer_ready(w1, IRQ_HOST_ADAPTER)
        w4 == esdi_mca_set_callback([w3 EXCEPT !.dev.cmd_state = 1], Ticks(ESDI_TIME))
    IN  [w4 EXCEPT !.dev.data_pos = 0]

sector_buffer_phase0(w, why) ==
    LET w1 == [w EXCEPT !.dev.sector_pos = 0, !.dev.sector_count = w.dev.cmd_data[1]]
    IN  IF w1.dev.sector_count > SECTOR_BUFFER_SECTORS
        THEN Fatal(w1, why)
        ELSE LET w3 == transfer_ready(w1, IRQ_HOST_ADAPTER)
                 w4 == esdi_mca_set_callback([w3 EXCEPT !.dev.cmd_state = 1],
                                             Ticks(ESDI_TIME))
             IN  [w4 EXCEPT !.dev.data_pos = 0]

sector_buffer_done(w) ==
    esdi_mca_set_callback([w EXCEPT !.dev.status = STATUS_CMD_IN_PROGRESS,
                                    !.dev.cmd_state = 2],
                          Ticks(ESDI_TIME))

\* 0x10: DMA channel -> data -> sector_buffer[sector_pos++]
RECURSIVE write_buffer_loop(_, _)
write_buffer_loop(w, b) ==
    LET d == w.dev
    IN  IF d.sector_pos < d.sector_count
        THEN LET left == SectorWords - d.data_pos
                 n == Min(b, left)
                 w1 == [w EXCEPT
                          !.dev.data = [j \in 0 .. SectorWords - 1 |->
                                          IF j >= d.data_pos /\ j < d.data_pos + n
                                          THEN U16(DmaWord(w.dma_in + (j - d.data_pos)))
                                          ELSE d.data[j]],
                          !.dev.data_pos = d.data_pos + n,
                          !.dma_in = @ + n]
             IN  IF b < left
                 THEN esdi_mca_set_callback(w1, Ticks(ESDI_TIME))
                 ELSE write_buffer_loop(
                          [w1 EXCEPT !.dev.sector_buffer =
                                         ScratchWrite(d, d.sector_pos, w1.dev.data),
                                     !.dev.sector_pos = @ + 1,
                                     !.dev.data_pos = 0],
                          b - n)
        ELSE sector_buffer_done(w)

cb_write_sector_buffer(w, b) ==
    IF w.dev.cmd_dev # ATTN_HOST_ADAPTER THEN cmd_unsupported(w)
    ELSE IF w.dev.cmd_state = 0
         THEN sector_buffer_phase0(w, "Write sector buffer count")
    ELSE IF w.dev.cmd_state = 1
         THEN IF ~DmaEnabled(w)
              THEN esdi_mca_set_callback(w, Ticks(ESDI_TIME))
              ELSE write_buffer_loop(w, b)
    ELSE IF w.dev.cmd_state = 2 THEN adapter_success(w, STATUS_IRQ)
    ELSE w

\* 0x11: sector_buffer[sector_pos++] -> data -> DMA channel
RECURSIVE read_buffer_loop(_, _)
read_buffer_loop(w, b) ==
    LET d == w.dev
    IN  IF d.sector_pos < d.sector_count
        THEN LET w1 == IF d.data_pos = 0
                       THEN [w EXCEPT !.dev.data = ScratchSector(d, d.sector_pos),
                                      !.dev.sector_pos = @ + 1]
                       ELSE w
                 left == SectorWords - d.data_pos
                 n == Min(b, left)
                 w2 == [w1 EXCEPT
                          !.dma_out = @ \o [k \in 1 .. n |-> w1.dev.data[d.data_pos + k - 1]],
                          !.dev.data_pos = d.data_pos + n]
             IN  IF b < left
                 THEN esdi_mca_set_callback(w2, Ticks(ESDI_TIME))
                 ELSE read_buffer_loop([w2 EXCEPT !.dev.data_pos = 0], b - n)
        ELSE sector_buffer_done(w)

cb_read_sector_buffer(w, b) ==
    IF w.dev.cmd_dev # ATTN_HOST_ADAPTER THEN cmd_unsupported(w)
    ELSE IF w.dev.cmd_state = 0
         THEN sector_buffer_phase0(w, "Read sector buffer count")
    ELSE IF w.dev.cmd_state = 1
         THEN IF ~DmaEnabled(w)
              THEN esdi_mca_set_callback(w, Ticks(ESDI_TIME))
              ELSE read_buffer_loop(w, b)
    ELSE IF w.dev.cmd_state = 2 THEN adapter_success(w, STATUS_IRQ)
    ELSE w

(* ---------------------------------------------------------------------- *)
(* esdi_callback: CMD_FORMAT_UNIT and CMD_FORMAT_PREPARE                  *)
(* ---------------------------------------------------------------------- *)
cb_format(w) ==
    IF ~IsDriveTarget(w) THEN cmd_unsupported(w)
    ELSE IF SelDrive(w).present = 0 THEN device_not_present(w)
    ELSE IF w.dev.cmd_state = 0
         THEN LET w1 == [w EXCEPT !.dev.rba = hdd_image_get_last_sector(w, DriveNo(w)),
                                  !.dev.sector_count =
                                      IF w.dev.command = CMD_FORMAT_UNIT
                                      THEN w.dev.cmd_data[1] ELSE 0,
                                  !.start_rba = hdd_image_get_last_sector(w, DriveNo(w))]
                  w3 == transfer_ready(w1, w.dev.cmd_dev)
              IN  esdi_mca_set_callback([w3 EXCEPT !.dev.cmd_state = 1], Ticks(ESDI_TIME))
    ELSE IF w.dev.cmd_state = 1
         THEN IF ~DmaEnabled(w)
              THEN esdi_mca_set_callback(w, Ticks(ESDI_TIME))
              ELSE LET w1 == IF w.dev.command = CMD_FORMAT_UNIT
                             THEN ImageZero(w, DriveNo(w)) ELSE w
                   IN  esdi_mca_set_callback(
                           [w1 EXCEPT !.dev.status = STATUS_CMD_IN_PROGRESS,
                                      !.dev.cmd_state = 2],
                           Ticks(ESDI_TIME))
    ELSE IF w.dev.cmd_state = 2 THEN complete_success(complete_command_status(w))
    ELSE w

(* ---------------------------------------------------------------------- *)
(* esdi_callback                                                          *)
(* ---------------------------------------------------------------------- *)
reset_complete(w) ==
    [w EXCEPT !.dev.in_reset = 0,
              !.dev.status = BitOr(BitOr(STATUS_IRQ, STATUS_TRANSFER_REQ),
                                   STATUS_STATUS_OUT_FULL),
              !.dev.status_len = 1,
              !.dev.status_data[0] = BitOr(STATUS_LEN(1), ATTN_HOST_ADAPTER),
              !.dev.irq_status = BitOr(IRQ_HOST_ADAPTER, IRQ_RESET_COMPLETE)]

esdi_callback(w, b) ==
    LET c == w.dev.command
    IN  IF w.dev.in_reset # 0 THEN reset_complete(w)
        ELSE IF c = CMD_READ \/ c = CMD_15 THEN cb_read(w, b)
        ELSE IF c = CMD_WRITE \/ c = CMD_WRITE_VERIFY THEN cb_write(w, b)
        ELSE IF c = CMD_READ_VERIFY THEN cb_read_verify(w)
        ELSE IF c = CMD_SEEK THEN cb_seek(w)
        ELSE IF c = CMD_PARK_HEADS THEN cb_park_heads(w)
        ELSE IF c = CMD_GET_DEV_STATUS THEN cb_get_dev_status(w)
        ELSE IF c = CMD_GET_DEV_CONFIG THEN cb_get_dev_config(w)
        ELSE IF c = CMD_GET_POS_INFO THEN cb_get_pos_info(w)
        ELSE IF c = CMD_WRITE_SECTOR_BUFFER THEN cb_write_sector_buffer(w, b)
        ELSE IF c = CMD_READ_SECTOR_BUFFER THEN cb_read_sector_buffer(w, b)
        ELSE IF c = CMD_12 THEN cb_cmd_12(w)
        ELSE IF c = CMD_FORMAT_UNIT \/ c = CMD_FORMAT_PREPARE THEN cb_format(w)
        ELSE Fatal(w, "BAD COMMAND")

(* ---------------------------------------------------------------------- *)
(* Register handlers                                                      *)
(* ---------------------------------------------------------------------- *)
\* A reset that completes after the delay of a command.
start_reset_short(w) ==
    [esdi_mca_set_callback([w EXCEPT !.dev.in_reset = 1], Ticks(ESDI_TIME))
     EXCEPT !.dev.status = STATUS_BUSY]

\* in_reset = 1; esdi_mca_set_callback(dev, ESDI_TIME * 50); status = STATUS_BUSY
start_reset(w) ==
    [esdi_mca_set_callback([w EXCEPT !.dev.in_reset = 1], Ticks(ESDI_TIME * 50))
     EXCEPT !.dev.status = STATUS_BUSY]

\* A control register whose reset bit, when set, leaves the timer running.
write_control_keeps_timer(w, val) ==
    LET old == w.dev.basic_ctrl
        w1 == IF BitAnd(old, CTRL_RESET) # 0 /\ BitAnd(val, CTRL_RESET) = 0
              THEN [esdi_mca_set_callback([w EXCEPT !.dev.in_reset = 1], Ticks(ESDI_TIME * 50))
                    EXCEPT !.dev.status = STATUS_BUSY]
              ELSE IF BitAnd(old, CTRL_RESET) = 0 /\ BitAnd(val, CTRL_RESET) # 0
              THEN [w EXCEPT !.dev.status = STATUS_BUSY]
              ELSE w
        w2 == [w1 EXCEPT !.dev.basic_ctrl = val]
    IN  IF BitAnd(val, CTRL_IRQ_ENA) # 0 /\ BitAnd(old, CTRL_IRQ_ENA) = 0
        THEN [w2 EXCEPT !.irq_line = IF w2.dev.irq_ena_disable # 0 THEN 1 ELSE 0]
        ELSE w2

\* esdi_write, port 2: the basic control register
write_control(w, val) ==
    LET old == w.dev.basic_ctrl
        w1 == IF BitAnd(old, CTRL_RESET) # 0 /\ BitAnd(val, CTRL_RESET) = 0
              THEN start_reset(w)
              ELSE IF BitAnd(old, CTRL_RESET) = 0 /\ BitAnd(val, CTRL_RESET) # 0
              THEN [esdi_mca_set_callback(w, 0) EXCEPT !.dev.status = STATUS_BUSY]
              ELSE w
        w2 == [w1 EXCEPT !.dev.basic_ctrl = val]
    IN  IF BitAnd(val, CTRL_IRQ_ENA) # 0 /\ BitAnd(old, CTRL_IRQ_ENA) = 0
        THEN update_irq(w2)
        ELSE w2

\* A command request that is latched whatever is in flight.
attn_cmd_req_relatch(w, target) ==
    [w EXCEPT !.dev.cmd_req_in_progress = 1,
              !.dev.cmd_dev = target,
              !.dev.status = BitOr(@, STATUS_BUSY),
              !.dev.cmd_pos = 0,
              !.dev.status_pos = 0]

attn_cmd_req(w, target) ==
    IF w.dev.cmd_req_in_progress # 0
    THEN Fatal(w, "Try to start command on in_progress")
    ELSE [w EXCEPT !.dev.cmd_req_in_progress = 1,
                   !.dev.cmd_dev = target,
                   !.dev.status = BitOr(@, STATUS_BUSY),
                   !.dev.cmd_pos = 0,
                   !.dev.status_pos = 0]

attn_eoi(w) ==
    clear_irq([w EXCEPT !.dev.irq_in_progress = 0,
                        !.dev.status = BitClear(@, STATUS_IRQ)])

\* An attention register that takes a reset request for any target.
write_attention_any_reset(w, val) ==
    LET req == BitAnd(val, ATTN_REQ_MASK)
    IN  IF req = ATTN_CMD_REQ THEN attn_cmd_req(w, BitAnd(val, ATTN_DEVICE_SEL))
        ELSE IF req = ATTN_EOI THEN attn_eoi(w)
        ELSE IF req = ATTN_RESET THEN start_reset(w)
        ELSE Fatal(w, "Bad attention request")

\* esdi_write, port 3: the attention register
write_attention(w, val) ==
    LET target == BitAnd(val, ATTN_DEVICE_SEL)
        req == BitAnd(val, ATTN_REQ_MASK)
    IN  IF target = ATTN_HOST_ADAPTER
        THEN IF req = ATTN_CMD_REQ THEN attn_cmd_req(w, ATTN_HOST_ADAPTER)
             ELSE IF req = ATTN_EOI THEN attn_eoi(w)
             ELSE IF req = ATTN_RESET THEN start_reset(w)
             ELSE Fatal(w, "Bad attention request")
        ELSE IF target = ATTN_DEVICE_0 \/ target = ATTN_DEVICE_1
        THEN IF req = ATTN_CMD_REQ THEN attn_cmd_req(w, target)
             ELSE IF req = ATTN_EOI THEN attn_eoi(w)
             ELSE Fatal(w, "Bad attention request")
        ELSE Fatal(w, "Attention to unknown device")

\* esdi_write
esdi_write_fn(w, port, val) ==
    IF port % 8 = 2 THEN write_control(w, val)
    ELSE IF port % 8 = 3 THEN write_attention(w, val)
    ELSE Fatal(w, "esdi_write port")

\* A read of the interrupt status that ends the interrupt.
read_acknowledges(w, port) ==
    IF port % 8 = 3 THEN attn_eoi(w) ELSE w

\* esdi_read: the state after the read, and the byte it returns
esdi_read_fn(w, port) ==
    IF port % 8 = 3
    THEN [w EXCEPT !.dev.status = BitClear(@, STATUS_IRQ)]
    ELSE w

esdi_read_ret(w, port) ==
    IF port % 8 = 2 THEN w.dev.status
    ELSE IF port % 8 = 3 THEN w.dev.irq_status
    ELSE 0

\* esdi_readw: the state after the read, and the word it returns
esdi_readw_fn(w, port) ==
    LET d == w.dev
    IN  IF port % 8 # 0 THEN Fatal(w, "esdi_readw port")
        ELSE IF d.status_pos >= d.status_len THEN w
        ELSE IF d.status_pos + 1 >= d.status_len
        THEN [w EXCEPT !.dev.status = BitClear(@, STATUS_STATUS_OUT_FULL),
                       !.dev.status_pos = 0,
                       !.dev.status_len = 0]
        ELSE [w EXCEPT !.dev.status_pos = @ + 1]

\* A status read that always returns the head of the block.
readw_first_word(w, port) == w.dev.status_data[0]

esdi_readw_ret(w, port) ==
    IF w.dev.status_pos >= w.dev.status_len THEN 0
    ELSE w.dev.status_data[w.dev.status_pos]

\* A queue that is taken at four words whatever the form of the command.
CommandCompleteAtFour(d) == d.cmd_pos = 4

\* The command queue holds a whole command.
CommandComplete(d) ==
    \/ BitAnd(d.cmd_data[0], CMD_SIZE_4) # 0 /\ d.cmd_pos = 4
    \/ BitAnd(d.cmd_data[0], CMD_SIZE_4) = 0 /\ d.cmd_pos = 2

\* The records of the command that ended are dropped when the next is taken.
NewCommand(w) ==
    [w EXCEPT !.dma_out = <<>>, !.dma_in = 0, !.img_touched = FALSE,
              !.dtr_latched = FALSE, !.resumed = FALSE, !.err = <<>>]

\* esdi_writew
esdi_writew_fn(w, port, val) ==
    IF port % 8 # 0 THEN Fatal(w, "esdi_writew port")
    ELSE IF w.dev.cmd_pos >= 4 THEN Fatal(w, "CIR pos 4")
    ELSE LET w1 == [w EXCEPT !.dev.cmd_data[w.dev.cmd_pos] = val,
                             !.dev.cmd_pos = @ + 1]
         IN  IF CommandComplete(w1.dev)
             THEN LET w2 == [w1 EXCEPT !.dev.cmd_pos = 0,
                                       !.dev.cmd_req_in_progress = 0,
                                       !.dev.cmd_state = 0]
                  IN  IF BitAnd(w2.dev.cmd_data[0], CMD_DEVICE_SEL) # w2.dev.cmd_dev
                      THEN Fatal(w2, "Command device mismatch with attn")
                      ELSE LET w3 == [w2 EXCEPT !.dev.command =
                                                    BitAnd(w2.dev.cmd_data[0], CMD_MASK)]
                               w4 == esdi_mca_set_callback(w3, Ticks(ESDI_TIME))
                           IN  NewCommand([w4 EXCEPT !.dev.status = STATUS_BUSY,
                                                     !.dev.data_pos = 0])
             ELSE w1

\* esdi_reset, the reset hook of the integrated controller
esdi_reset_fn(w) ==
    IF w.dev.in_reset = 0 THEN start_reset(w) ELSE w

\* esdi_mca_read: the POS register the MCA bus reads
esdi_mca_read_ret(w, port) == w.dev.pos_regs[port % 8]

\* esdi_mca_feedb: the card-enable bit of POS register 2
esdi_mca_feedb_ret(w) == BitAnd(w.dev.pos_regs[2], 1)

\* the DMA channel that bits 5-2 of POS register 2 select; the values the
\* switch has no case for leave the channel as it was
PosDmaChannel(pos2, old) ==
    LET sel == BitAnd(pos2, 60)
    IN  IF sel = 20 THEN 5
        ELSE IF sel = 24 THEN 6
        ELSE IF sel = 28 THEN 7
        ELSE IF sel = 0 THEN 0
        ELSE IF sel = 4 THEN 1
        ELSE IF sel = 12 THEN 3
        ELSE IF sel = 16 THEN 4
        ELSE old

\* esdi_integrated_mca_write: a write below POS register 2 is dropped; any
\* other is stored, the register handlers are removed, the DMA channel is
\* taken from POS register 2, and the handlers are installed again when bit
\* 0 of POS register 2 enables the card
esdi_integrated_mca_write_fn(w, port, val) ==
    IF port < POS_FIRST_WRITABLE THEN w
    ELSE LET w1 == [w EXCEPT !.dev.pos_regs[port % 8] = U8(val)]
             w2 == [w1 EXCEPT !.io_handlers = 0,
                              !.dev.dma = PosDmaChannel(w1.dev.pos_regs[2], @)]
         IN  IF BitAnd(w2.dev.pos_regs[2], 1) # 0
             THEN [w2 EXCEPT !.io_handlers = 1]
             ELSE w2

(* ---------------------------------------------------------------------- *)
(* What the guest writes                                                  *)
(* ---------------------------------------------------------------------- *)
\* control bytes of the register protocol: the reset bit and interrupt enable
CtrlVals == {r + i : r \in {0, CTRL_RESET}, i \in {0, CTRL_IRQ_ENA}}
\* control bytes of a driver running commands: DMA enable and interrupt enable
ExecCtrlVals == {d + i : d \in {0, CTRL_DMA_ENA}, i \in {0, CTRL_IRQ_ENA}}

Targets == {ATTN_HOST_ADAPTER, ATTN_DEVICE_0, ATTN_DEVICE_1}

\* every attention the adapter accepts
AttnVals == {t + r : t \in Targets, r \in {ATTN_CMD_REQ, ATTN_EOI}}
            \cup {ATTN_HOST_ADAPTER + ATTN_RESET}

\* A command as the guest writes it: two words, or four with CMD_SIZE_4 set.
Short(op, t, count) == <<op + t, count>>
Long(op, t, count, addr) == <<op + t + CMD_SIZE_4, count, addr % 65536, addr \div 65536>>

\* block addresses: the first sectors, a sector beyond 255 next to the
\* defective one, the last sector that can be transferred, and the end
Addrs == {0, 299, 70558, 70559}

\* The commands of the register protocol: queries and a transfer, to every target.
ProtoCmds ==
    {Short(op, t, 1) : op \in {CMD_READ, CMD_GET_DEV_STATUS, CMD_GET_POS_INFO}, t \in Targets}

\* Every command of the executor.  The commands that carry a block address
\* go to drive 0 with every count and address, and once to the absent drive
\* and to the adapter; the others go once to every target.
AddressedOps == {CMD_READ, CMD_WRITE, CMD_READ_VERIFY, CMD_WRITE_VERIFY, CMD_SEEK}
CountedOps == {CMD_WRITE_SECTOR_BUFFER, CMD_READ_SECTOR_BUFFER, CMD_FORMAT_UNIT, CMD_15}
PlainOps == {CMD_PARK_HEADS, CMD_GET_DEV_STATUS, CMD_GET_DEV_CONFIG, CMD_GET_POS_INFO,
             CMD_12, CMD_FORMAT_PREPARE, 7}
Counts == 0 .. MaxCount

ExecCmds ==
    {Long(op, ATTN_DEVICE_0, n, a) : op \in AddressedOps, n \in Counts, a \in Addrs}
    \cup {Long(op, t, 1, 0) : op \in AddressedOps, t \in {ATTN_DEVICE_1, ATTN_HOST_ADAPTER}}
    \cup {Short(op, t, n) : op \in CountedOps, t \in Targets, n \in Counts}
    \cup {Short(op, t, 0) : op \in PlainOps, t \in Targets}

\* The words the guest may write next: word cmd_pos of a command of its
\* program whose earlier words are the ones in the queue.
WordsAt(d) ==
    {c[d.cmd_pos + 1] : c \in {x \in prog : /\ Len(x) > d.cmd_pos
                                            /\ \A k \in 1 .. d.cmd_pos : x[k] = d.cmd_data[k - 1]}}

(* ---------------------------------------------------------------------- *)
(* Actions                                                                *)
(* ---------------------------------------------------------------------- *)
Running == fatal = "none"

WriteControl(vals) == Running /\ \E val \in vals : Commit(esdi_write_fn(World, 2, val))

WriteAttention(vals) == Running /\ \E val \in vals : Commit(esdi_write_fn(World, 3, val))

WriteCommandWord ==
    /\ Running
    /\ \E val \in WordsAt(dev) : Commit(esdi_writew_fn(World, 0, val))

ReadStatusWord == Running /\ Commit(esdi_readw_fn(World, 0))

ReadRegister == Running /\ \E port \in {2, 3} : Commit(esdi_read_fn(World, port))

McaReset == Running /\ Commit(esdi_reset_fn(World))

\* The planar writes a POS register of the slot.
McaWrite(writes) ==
    /\ Running
    /\ \E pv \in writes : Commit(esdi_integrated_mca_write_fn(World, pv[1], pv[2]))

\* The timer is stopped when it fires; the callback may start it again.
TimerFire ==
    /\ Running
    /\ timer # 0
    /\ \E b \in Bursts : Commit(esdi_callback([World EXCEPT !.timer = 0], b))

\* The guest drives the register protocol in any order.
Init == Boot /\ prog \in {{c} : c \in ProtoCmds}

Next ==
    \/ WriteControl(CtrlVals)
    \/ WriteAttention(AttnVals)
    \/ WriteCommandWord
    \/ ReadStatusWord
    \/ ReadRegister
    \/ McaReset
    \/ TimerFire

Spec == Init /\ [][Next]_vars

\* A driver that keeps to the protocol runs one kind of command, over and
\* over: it asks for a command only when the status register shows the
\* adapter neither busy nor executing, writes the command words after its
\* request, and acknowledges interrupts and sets the
\* DMA and interrupt enables whenever it likes.
DriverIdle == BitAnd(dev.status, STATUS_BUSY + STATUS_CMD_IN_PROGRESS) = 0

DriverRequest ==
    /\ Running
    /\ DriverIdle
    /\ \E c \in prog : Commit(esdi_write_fn(World, 3, BitAnd(c[1], CMD_DEVICE_SEL) + ATTN_CMD_REQ))

DriverWord ==
    /\ Running
    /\ dev.cmd_req_in_progress = 1
    /\ \E val \in WordsAt(dev) : Commit(esdi_writew_fn(World, 0, val))

DriverEoi == Running /\ Commit(esdi_write_fn(World, 3, ATTN_HOST_ADAPTER + ATTN_EOI))

InitExec == Boot /\ timer # 0 /\ prog \in {{c} : c \in ExecCmds}

NextExec ==
    \/ WriteControl(ExecCtrlVals)
    \/ DriverRequest
    \/ DriverWord
    \/ DriverEoi
    \/ ReadRegister
    \/ TimerFire

SpecExec == InitExec /\ [][NextExec]_vars

(* ---------------------------------------------------------------------- *)
(* Properties                                                             *)
(* ---------------------------------------------------------------------- *)
TransferOps == {CMD_READ, CMD_WRITE}
RangeOps == {CMD_READ, CMD_WRITE, CMD_WRITE_VERIFY, CMD_READ_VERIFY}
DriveOnlyOps == {CMD_READ, CMD_WRITE, CMD_READ_VERIFY, CMD_WRITE_VERIFY, CMD_SEEK,
                 CMD_PARK_HEADS, CMD_GET_DEV_STATUS, CMD_FORMAT_UNIT, CMD_FORMAT_PREPARE}
AdapterOnlyOps == {CMD_GET_POS_INFO, CMD_WRITE_SECTOR_BUFFER, CMD_READ_SECTOR_BUFFER, CMD_12}
ErrorPairs == {<<3843, 2>>, <<3089, 11>>, <<3585, 7>>, <<3585, 9>>}

\* The callback that is pending belongs to a command, not to a reset.
CommandPending == Running /\ dev.in_reset = 0 /\ timer # 0

\* The words the status queue still holds for esdi_readw.
QueueWords(d) ==
    [k \in 1 .. (IF d.status_pos < d.status_len THEN d.status_len - d.status_pos ELSE 0)
       |-> d.status_data[d.status_pos + k - 1]]

\* A command request written now would be accepted.
RequestAccepted == \A t \in Targets : esdi_write_fn(World, 3, t + ATTN_CMD_REQ).fatal = "none"

\* The failure interrupt of the selected target is latched and raised.
FailureRaised ==
    /\ dev.status = BitOr(STATUS_IRQ, STATUS_STATUS_OUT_FULL)
    /\ dev.irq_status = BitOr(dev.cmd_dev, IRQ_CMD_COMPLETE_FAILURE)
    /\ dev.irq_in_progress = 1
    /\ dev.irq_ena_disable = 1
    /\ (BitAnd(dev.basic_ctrl, CTRL_IRQ_ENA) # 0 => irq_line = 1)

\* C1: a command-request attention, for any of the three targets, written
\* while cmd_req_in_progress is set ends in the fatal failure, and nothing
\* of the adapter changes: cmd_dev, cmd_pos and status_pos keep their values.
C1_SecondRequestIsFatal ==
    [][\A t \in Targets :
          (/\ Running
           /\ dev.cmd_req_in_progress # 0
           /\ Commit(esdi_write_fn(World, 3, t + ATTN_CMD_REQ)))
          => (/\ fatal' = "Try to start command on in_progress"
              /\ dev'.cmd_dev = dev.cmd_dev
              /\ dev'.cmd_pos = dev.cmd_pos
              /\ dev'.status_pos = dev.status_pos
              /\ dev' = dev)]_vars

\* a second request for drive 1 met a request for drive 0 whose first word was written
C1_SecondRequestMade ==
    /\ fatal = "Try to start command on in_progress"
    /\ dev.cmd_req_in_progress = 1
    /\ dev.cmd_dev = ATTN_DEVICE_0
    /\ dev.cmd_pos = 1

\* The words a READ has handed to the DMA channel when it stands at
\* sector_pos, data_pos: the sectors from the address on, word by word.
ReadSoFar(d) ==
    [k \in 1 .. (d.sector_pos * SectorWords + d.data_pos) |->
        InitWord(0, start_rba + ((k - 1) \div SectorWords), (k - 1) % SectorWords)]

\* C2: in a READ or WRITE of drive 0, whatever the DMA channel stalls on, the
\* words exchanged with it are the words of the sectors address .. address +
\* count - 1 in order, each once: at every moment of phase 1 and 2 the words
\* handed out (READ) or taken in and stored (WRITE) are those up to word
\* data_pos of sector sector_pos, and rba is address + sector_pos.
C2_TransferResumesInPlace ==
    (dev.command \in TransferOps /\ dev.cmd_dev = ATTN_DEVICE_0 /\ dev.cmd_state \in {1, 2})
    => /\ dev.rba = start_rba + dev.sector_pos
       /\ dev.sector_pos <= dev.sector_count
       /\ dev.data_pos <= SectorWords
       /\ (dev.cmd_state = 2 => dev.sector_pos = dev.sector_count /\ dev.data_pos = 0)
       /\ (dev.command = CMD_READ /\ image = <<>> /\ zeroed = {})
            => /\ dma_out = ReadSoFar(dev)
               /\ dma_in = 0
               /\ (dev.data_pos > 0 => dev.data = InitSector(0, dev.rba))
       /\ dev.command = CMD_WRITE
            => /\ dma_in = dev.sector_pos * SectorWords + dev.data_pos
               /\ dma_out = <<>>
               /\ \A k \in 0 .. dev.sector_pos - 1 :
                     /\ <<0, start_rba + k>> \in DOMAIN image
                     /\ image[<<0, start_rba + k>>]
                          = [j \in 0 .. SectorWords - 1 |-> DmaWord(k * SectorWords + j)]
               /\ \A j \in 0 .. dev.data_pos - 1 :
                     dev.data[j] = DmaWord(dev.sector_pos * SectorWords + j)
               /\ DOMAIN image \subseteq {<<0, start_rba + k>> : k \in 0 .. dev.sector_count - 1}

\* a READ of MaxCount sectors went on in the middle of a sector and handed out every word
C2_ResumedAndFinished ==
    /\ dev.command = CMD_READ
    /\ dev.cmd_state = 2
    /\ resumed
    /\ dev.sector_count = MaxCount
    /\ Len(dma_out) = MaxCount * SectorWords

\* C3: once phase 1 of a READ or WRITE has consumed every sector, the
\* phase-2 callback is scheduled: while the command waits for phase 2 the
\* timer runs.
C3_Phase2Scheduled ==
    (/\ Running
     /\ dev.command \in TransferOps
     /\ dev.cmd_state = 2
     /\ dev.status = STATUS_CMD_IN_PROGRESS)
    => timer # 0

\* a READ of no sectors waits for phase 2 with the timer stopped
C3_ReadOfNothingHangs ==
    /\ Running
    /\ dev.command = CMD_READ
    /\ dev.cmd_state = 2
    /\ dev.status = STATUS_CMD_IN_PROGRESS
    /\ dev.sector_count = 0
    /\ timer = 0

\* C4: the completion status block of a READ or WRITE of count >= 1 sectors
\* has 7 words, no blocks left, no blocks in error recovery, and words 4 and
\* 5 are the low and the high 16 bits of address + count - 1.
C4_LastBlockAddress ==
    (/\ dev.command \in TransferOps
     /\ dev.cmd_state = 2
     /\ dev.irq_status = BitOr(dev.cmd_dev, IRQ_CMD_COMPLETE_SUCCESS)
     /\ dev.sector_count >= 1)
    => /\ dev.status_len = 7
       /\ dev.status_data[3] = 0
       /\ dev.status_data[6] = 0
       /\ dev.status_data[4] = (start_rba + dev.sector_count - 1) % 65536
       /\ dev.status_data[5] = (start_rba + dev.sector_count - 1) \div 65536

\* a READ of the one sector 299 completed with 1 as the high word of the last block
C4_HighWordShiftedBy8 ==
    /\ dev.command = CMD_READ
    /\ dev.cmd_state = 2
    /\ dev.irq_status = BitOr(dev.cmd_dev, IRQ_CMD_COMPLETE_SUCCESS)
    /\ start_rba = 299
    /\ dev.sector_count = 1
    /\ dev.status_data[4] = 299
    /\ dev.status_data[5] = 1

\* Phase 0 of a READ, WRITE, WRITE-VERIFY or READ-VERIFY of a present drive
\* whose address + count is beyond the drive is pending.
OutOfRangePending ==
    /\ CommandPending
    /\ dev.command \in RangeOps
    /\ dev.cmd_state = 0
    /\ IsDriveTarget(World)
    /\ SelDrive(World).present = 1
    /\ DecodeRba(dev) + dev.cmd_data[1] > SelDrive(World).sectors

\* C5: a READ, WRITE, WRITE-VERIFY or READ-VERIFY of a present drive with
\* address + count greater than the drive's sectors ends with the status
\* 0x0e01, 0x0007 and a command-complete-failure interrupt, and for that
\* command no sector of the image is read or written and no word is
\* exchanged with the DMA channel.
C5_OutOfRangeTouchesNothing ==
    /\ [][(OutOfRangePending /\ TimerFire)
          => (/\ err' = <<3585, 7>>
              /\ dev'.status_len = 9
              /\ dev'.status_data[1] = 3585
              /\ dev'.status_data[2] = 7
              /\ dev'.irq_status = BitOr(dev.cmd_dev, IRQ_CMD_COMPLETE_FAILURE)
              /\ dev'.irq_in_progress = 1
              /\ timer' = 0
              /\ image' = image /\ zeroed' = zeroed)]_vars
    /\ []((err = <<3585, 7>> /\ dev.command \in RangeOps)
          => (~img_touched /\ dma_out = <<>> /\ dma_in = 0))

\* a WRITE of two sectors from the last sector of drive 0 ended out of range
C5_WriteBeyondEnd ==
    /\ err = <<3585, 7>>
    /\ dev.command = CMD_WRITE
    /\ dev.cmd_dev = ATTN_DEVICE_0
    /\ DecodeRba(dev) = 70558
    /\ dev.sector_count = 2
    /\ dev.status_data[1] = 3585
    /\ dev.status_data[2] = 7

\* The callback of a drive-only command for a drive that is not there is pending.
AbsentDrivePending ==
    /\ CommandPending
    /\ dev.command \in DriveOnlyOps
    /\ IsDriveTarget(World)
    /\ SelDrive(World).present = 0

\* C6: a drive-only command for drive 0 or 1 whose presence flag is false
\* ends with the status 0x0c11, 0x000b and a command-complete-failure
\* interrupt; for that command no data-transfer-ready interrupt is latched
\* and the image is not accessed.
C6_AbsentDriveNotPresent ==
    /\ [][(AbsentDrivePending /\ TimerFire)
          => (/\ err' = <<3089, 11>>
              /\ dev'.status_len = 9
              /\ dev'.status_data[1] = 3089
              /\ dev'.status_data[2] = 11
              /\ dev'.irq_status = BitOr(dev.cmd_dev, IRQ_CMD_COMPLETE_FAILURE)
              /\ dev'.irq_in_progress = 1
              /\ timer' = 0
              /\ image' = image /\ zeroed' = zeroed)]_vars
    /\ []((/\ dev.in_reset = 0
           /\ dev.command \in DriveOnlyOps
           /\ IsDriveTarget(World)
           /\ SelDrive(World).present = 0)
          => (~dtr_latched /\ ~img_touched /\ dma_out = <<>> /\ dma_in = 0))

\* a FORMAT UNIT for the absent drive 1 ended with device-not-present
C6_FormatOfAbsentDrive ==
    /\ err = <<3089, 11>>
    /\ dev.command = CMD_FORMAT_UNIT
    /\ dev.cmd_dev = ATTN_DEVICE_1
    /\ dev.status_data[1] = 3089
    /\ dev.status_data[2] = 11
    /\ ~dtr_latched

\* The callback of a drive-only command with the adapter selected, or of an
\* adapter-only command with a drive selected, is pending.
WrongScopePending ==
    /\ CommandPending
    /\ \/ dev.command \in DriveOnlyOps /\ dev.cmd_dev = ATTN_HOST_ADAPTER
       \/ dev.command \in AdapterOnlyOps /\ IsDriveTarget(World)

\* C7: a drive-only command with the host adapter selected, and an
\* adapter-only command with a drive selected, yields the status 0x0f03,
\* 0x0002; afterwards no callback is pending, the callback has not put a
\* request in flight, and a command request written next is accepted.
C7_WrongScopeUnsupported ==
    [][(WrongScopePending /\ TimerFire)
       => (/\ err' = <<3843, 2>>
           /\ dev'.status_len = 9
           /\ dev'.status_data[1] = 3843
           /\ dev'.status_data[2] = 2
           /\ timer' = 0
           /\ dev'.cmd_req_in_progress = dev.cmd_req_in_progress
           /\ (dev.cmd_req_in_progress = 0
                 => (dev'.cmd_req_in_progress = 0 /\ RequestAccepted')))]_vars

\* after a sector-buffer write for drive 0 was refused, the next request was taken
C7_RequestAfterRefusal ==
    /\ err = <<3843, 2>>
    /\ dev.command = CMD_WRITE_SECTOR_BUFFER
    /\ dev.cmd_dev = ATTN_DEVICE_0
    /\ dev.status_data[1] = 3843
    /\ dev.cmd_req_in_progress = 1
    /\ timer = 0
    /\ Running

\* C8: every error of a command loads a 9-word status block with one of the
\* four code pairs, sets status to IRQ | status-out-full, latches the
\* interrupt status cmd_dev | command-complete-failure, raises the
\* interrupt and schedules no callback; until the next command is taken the
\* timer stays stopped, so no later phase of the command runs.
C8_ErrorEndsCommand ==
    /\ [][(err = <<>> /\ err' # <<>>)
          => (/\ err' \in ErrorPairs
              /\ dev'.status_len = 9
              /\ dev'.status_data[1] = err'[1]
              /\ dev'.status_data[2] = err'[2]
              /\ FailureRaised'
              /\ timer' = 0)]_vars
    /\ [][(err # <<>> /\ err' # <<>>)
          => (/\ dev'.cmd_state = dev.cmd_state
              /\ dev'.sector_pos = dev.sector_pos
              /\ dev'.data_pos = dev.data_pos
              /\ dev'.status_data = dev.status_data
              /\ image' = image
              /\ dma_out' = dma_out /\ dma_in' = dma_in)]_vars
    /\ [](err # <<>> => timer = 0)

\* a READ met the defective block in phase 1, after the sector before it went out
C8_DefectiveBlockInPhase1 ==
    /\ err = <<3585, 9>>
    /\ dev.command = CMD_READ
    /\ dev.cmd_state = 1
    /\ dev.sector_pos = 1
    /\ dev.rba = 300
    /\ timer = 0

\* C9: when the timer fires while in_reset is set, the callback clears
\* in_reset, sets status to IRQ | transfer-request | status-out-full and
\* the interrupt status to host adapter | reset-complete, leaves the status
\* queue holding the one word length 1 | host adapter for the guest to pop,
\* and runs no phase of a command.
C9_ResetCompletion ==
    [][(dev.in_reset # 0 /\ TimerFire)
       => (/\ dev'.in_reset = 0
           /\ dev'.status = BitOr(BitOr(STATUS_IRQ, STATUS_TRANSFER_REQ),
                                  STATUS_STATUS_OUT_FULL)
           /\ dev'.irq_status = BitOr(IRQ_HOST_ADAPTER, IRQ_RESET_COMPLETE)
           /\ QueueWords(dev') = <<BitOr(STATUS_LEN(1), ATTN_HOST_ADAPTER)>>
           /\ esdi_readw_ret(World, 0)' = BitOr(STATUS_LEN(1), ATTN_HOST_ADAPTER)
           /\ dev'.cmd_state = dev.cmd_state
           /\ timer' = 0
           /\ image' = image /\ dma_out' = dma_out /\ dma_in' = dma_in)]_vars

\* a reset completed with the status cursor behind the one word it loaded
C9_ResetWordOutOfReach ==
    /\ dev.in_reset = 0
    /\ dev.irq_status = BitOr(IRQ_HOST_ADAPTER, IRQ_RESET_COMPLETE)
    /\ dev.status = BitOr(BitOr(STATUS_IRQ, STATUS_TRANSFER_REQ), STATUS_STATUS_OUT_FULL)
    /\ dev.status_len = 1
    /\ dev.status_pos >= 1
    /\ esdi_readw_ret(World, 0) = 0

\* C10: when the reset completes the adapter is idle whatever it was doing:
\* no command request and no interrupt is in flight, and a command request
\* written next is accepted.
C10_ResetLeavesIdle ==
    [][(dev.in_reset # 0 /\ TimerFire)
       => (/\ dev'.cmd_req_in_progress = 0
           /\ dev'.irq_in_progress = 0
           /\ RequestAccepted')]_vars

\* a reset completed over a command request, and the next request was fatal
C10_RequestAfterResetFatal ==
    /\ fatal = "Try to start command on in_progress"
    /\ dev.in_reset = 0
    /\ dev.irq_status = BitOr(IRQ_HOST_ADAPTER, IRQ_RESET_COMPLETE)
    /\ dev.cmd_req_in_progress = 1
    /\ BitAnd(dev.status, STATUS_BUSY) = 0

\* the attentions that ask for a command or end an interrupt
RequestAndEoiVals == AttnVals \ {ATTN_HOST_ADAPTER + ATTN_RESET}
EoiVals == {t + ATTN_EOI : t \in Targets}

\* C11: while in_reset is set, a command-request or end-of-interrupt
\* attention, a command-word write and a status read leave the adapter as it
\* is: no field changes, the timer keeps its delay, nothing is fatal.
C11_ResetSuppressesGuest ==
    [][(/\ Running
        /\ dev.in_reset # 0
        /\ \/ \E val \in RequestAndEoiVals : Commit(esdi_write_fn(World, 3, val))
           \/ \E val \in WordsAt(dev) : Commit(esdi_writew_fn(World, 0, val))
           \/ Commit(esdi_readw_fn(World, 0)))
       => (dev' = dev /\ timer' = timer /\ fatal' = fatal /\ irq_line' = irq_line)]_vars

\* a command written during the reset moved the reset completion to the base latency
C11_CommandRescheduledReset ==
    /\ dev.in_reset = 1
    /\ timer = Ticks(ESDI_TIME)
    /\ dev.command = CMD_GET_DEV_STATUS
    /\ dev.status = STATUS_BUSY

\* C12: in every state the IRQ bit of the status register is set if and
\* only if irq_in_progress is set.
C12_IrqBitIffInProgress ==
    (BitAnd(dev.status, STATUS_IRQ) # 0) <=> (dev.irq_in_progress # 0)

\* a reset completed: the IRQ bit is set and no interrupt is in progress
C12_IrqBitWithoutInterrupt ==
    /\ dev.in_reset = 0
    /\ dev.irq_status = BitOr(IRQ_HOST_ADAPTER, IRQ_RESET_COMPLETE)
    /\ dev.status = BitOr(BitOr(STATUS_IRQ, STATUS_TRANSFER_REQ), STATUS_STATUS_OUT_FULL)
    /\ dev.irq_in_progress = 0

\* C13: in every state status_pos <= status_len <= 256.
C13_StatusCursorInQueue ==
    dev.status_pos <= dev.status_len /\ dev.status_len <= 256

\* a one-word block was loaded with the cursor past it
C13_CursorPastBlock ==
    /\ dev.status_len = 1
    /\ dev.status_pos > dev.status_len
    /\ BitAnd(dev.status, STATUS_STATUS_OUT_FULL) # 0

(* ---------------------------------------------------------------------- *)
(* The command and status queues under a guest that writes any command    *)
(* ---------------------------------------------------------------------- *)
\* The short and the long form of a query, for the adapter and for drive 0.
\* The guest writes the word any of them has at the cursor, whatever it
\* wrote before and with or without a command request, so that a request
\* for one target meets a command for the other.
QueueProg ==
    {Short(CMD_GET_POS_INFO, t, 0) : t \in {ATTN_HOST_ADAPTER, ATTN_DEVICE_0}}
    \cup {Long(CMD_GET_POS_INFO, t, 0, 0) : t \in {ATTN_HOST_ADAPTER, ATTN_DEVICE_0}}
AnyWordAt(d) == {c[d.cmd_pos + 1] : c \in {x \in prog : Len(x) > d.cmd_pos}}
QueueAttnVals == {ATTN_HOST_ADAPTER + ATTN_CMD_REQ, ATTN_DEVICE_0 + ATTN_CMD_REQ,
                  ATTN_HOST_ADAPTER + ATTN_EOI}

\* The planar's writes of the POS registers: the adapter ID, which is
\* dropped, the card enable with DMA channel 5, and the ROM select.
QueuePosWrites == {<<257, 21>>, <<258, 21>>, <<259, 85>>}

FreeWord == Running /\ \E val \in AnyWordAt(dev) : Commit(esdi_writew_fn(World, 0, val))

InitQueue == Boot /\ timer # 0 /\ prog = QueueProg

NextQueue ==
    \/ McaWrite(QueuePosWrites)
    \/ WriteAttention(QueueAttnVals)
    \/ FreeWord
    \/ ReadStatusWord
    \/ TimerFire

SpecQueue == InitQueue /\ [][NextQueue]_vars

\* Word 0 of the command in the queue once `val` is written at the cursor,
\* and whether that write fills the queue.
WordZero(val) == IF dev.cmd_pos = 0 THEN val ELSE dev.cmd_data[0]
LongForm(val) == BitAnd(WordZero(val), CMD_SIZE_4) # 0
FillsQueue(val) ==
    \/ LongForm(val) /\ dev.cmd_pos = 3
    \/ ~LongForm(val) /\ dev.cmd_pos = 1

\* C14: cmd_pos is always in 0 .. 4; a word written at the cursor takes the
\* cursor back to 0 exactly when it is the fourth word of a command with bit
\* 14 of word 0 set or the second word of one with it clear, and moves it
\* on by one otherwise; the fatal for a write at cursor 4 is never met.
C14_CommandCursor ==
    /\ [](dev.cmd_pos \in 0 .. 4 /\ fatal # "CIR pos 4")
    /\ [][\A val \in AnyWordAt(dev) :
             (Running /\ Commit(esdi_writew_fn(World, 0, val)))
             => /\ FillsQueue(val) => dev'.cmd_pos = 0
                /\ ~FillsQueue(val)
                     => /\ dev'.cmd_pos = dev.cmd_pos + 1
                        /\ dev'.cmd_data[dev.cmd_pos] = val
                        /\ dev'.command = dev.command
                        /\ dev'.cmd_req_in_progress = dev.cmd_req_in_progress
                        /\ timer' = timer /\ fatal' = fatal]_vars

\* a long command was taken at its fourth word
C14_LongCommandTaken ==
    /\ Running
    /\ dev.cmd_pos = 0
    /\ dev.cmd_data[0] = CMD_GET_POS_INFO + ATTN_HOST_ADAPTER + CMD_SIZE_4
    /\ dev.command = CMD_GET_POS_INFO
    /\ dev.cmd_dev = ATTN_HOST_ADAPTER
    /\ dev.status = STATUS_BUSY
    /\ dev.in_reset = 0
    /\ timer = Ticks(ESDI_TIME)

\* C15: when the word that fills the queue is written and bits 7-5 of word
\* 0 equal cmd_dev, cmd_req_in_progress is cleared, command is the low 5
\* bits of word 0, cmd_state and data_pos are 0, status is exactly busy and
\* the callback is scheduled after ESDI_TIME; when the bits differ the write
\* is fatal, nothing is scheduled, and nothing runs after it.
C15_CommandTaken ==
    /\ [][\A val \in AnyWordAt(dev) :
             (Running /\ FillsQueue(val) /\ Commit(esdi_writew_fn(World, 0, val)))
             => IF BitAnd(WordZero(val), CMD_DEVICE_SEL) = dev.cmd_dev
                THEN /\ fatal' = "none"
                     /\ dev'.cmd_req_in_progress = 0
                     /\ dev'.command = WordZero(val) % 32
                     /\ dev'.cmd_state = 0
                     /\ dev'.data_pos = 0
                     /\ dev'.status = STATUS_BUSY
                     /\ timer' = Ticks(ESDI_TIME)
                ELSE /\ fatal' = "Command device mismatch with attn"
                     /\ dev'.command = dev.command
                     /\ timer' = timer]_vars
    /\ [][fatal = "Command device mismatch with attn" => UNCHANGED vars]_vars

\* a command for drive 0 met a request for the adapter
C15_TargetMismatch ==
    /\ fatal = "Command device mismatch with attn"
    /\ dev.cmd_dev = ATTN_HOST_ADAPTER
    /\ BitAnd(dev.cmd_data[0], CMD_DEVICE_SEL) = ATTN_DEVICE_0
    /\ dev.cmd_pos = 0

\* C16: a word read of the status port returns status_data[status_pos] and
\* moves the cursor on when status_pos < status_len, and returns 0 and
\* changes nothing when status_pos >= status_len; the read of the last word
\* clears the status-out-full bit and sets status_pos and status_len to 0.
C16_StatusRead ==
    [][(Running /\ Commit(esdi_readw_fn(World, 0)))
       => IF dev.status_pos < dev.status_len
          THEN /\ esdi_readw_ret(World, 0) = dev.status_data[dev.status_pos]
               /\ dev' = IF dev.status_pos + 1 < dev.status_len
                         THEN [dev EXCEPT !.status_pos = dev.status_pos + 1]
                         ELSE [dev EXCEPT !.status_pos = 0, !.status_len = 0,
                                          !.status = BitClear(@, STATUS_STATUS_OUT_FULL)]
               /\ timer' = timer /\ irq_line' = irq_line /\ fatal' = fatal
          ELSE /\ esdi_readw_ret(World, 0) = 0
               /\ dev' = dev
               /\ timer' = timer /\ irq_line' = irq_line /\ fatal' = fatal]_vars

\* the five words of a position-information block were read to the last
C16_BlockDrained ==
    /\ dev.status_data[0] = BitOr(BitOr(CMD_GET_POS_INFO, STATUS_LEN(5)), STATUS_DEVICE_HOST_ADAPTER)
    /\ dev.irq_status = BitOr(IRQ_HOST_ADAPTER, IRQ_CMD_COMPLETE_SUCCESS)
    /\ dev.status_len = 0
    /\ dev.status_pos = 0
    /\ BitAnd(dev.status, STATUS_STATUS_OUT_FULL) = 0
    /\ esdi_readw_ret(World, 0) = 0

\* C17: an end-of-interrupt attention for any target leaves irq_in_progress
\* clear, the IRQ bit of the status register clear and the interrupt line
\* de-asserted, whatever the guest wrote to the control register since the
\* interrupt was raised.
C17_EoiDropsInterrupt ==
    [][\A val \in EoiVals :
          (Running /\ Commit(esdi_write_fn(World, 3, val)))
          => /\ dev'.irq_in_progress = 0
             /\ BitAnd(dev'.status, STATUS_IRQ) = 0
             /\ irq_line' = 0]_vars

\* the interrupt was acknowledged with interrupts disabled and the line is
\* still asserted
C17_LineLeftAsserted ==
    /\ Running
    /\ irq_line = 1
    /\ dev.irq_ena_disable = 0
    /\ dev.irq_in_progress = 0
    /\ BitAnd(dev.status, STATUS_IRQ) = 0
    /\ BitAnd(dev.basic_ctrl, CTRL_IRQ_ENA) = 0
    /\ dev.in_reset = 0

(* ---------------------------------------------------------------------- *)
(* The control register                                                   *)
(* ---------------------------------------------------------------------- *)
\* The guest asks the adapter for position information, acknowledges the
\* interrupt, and writes the reset and interrupt-enable bits at any time.
CtrlProg == {Short(CMD_GET_POS_INFO, ATTN_HOST_ADAPTER, 0)}
CtrlAttnVals == {ATTN_HOST_ADAPTER + ATTN_CMD_REQ, ATTN_HOST_ADAPTER + ATTN_EOI}

\* esdi_write, port 2, with what the write found kept for the next state
ControlEdge ==
    /\ Running
    /\ \E val \in CtrlVals : CommitMachine(esdi_write_fn(World, 2, val))
    /\ ctrl_from' = [written |-> TRUE, basic_ctrl |-> dev.basic_ctrl,
                     in_reset |-> dev.in_reset, timer |-> timer, irq_line |-> irq_line]

InitCtrl == Boot /\ prog = CtrlProg

NextCtrl ==
    \/ ControlEdge
    \/ WriteAttention(CtrlAttnVals)
    \/ WriteCommandWord
    \/ TimerFire

SpecCtrl == InitCtrl /\ [][NextCtrl]_vars

\* a control write that clears a set reset bit, sets a clear one, or sets a
\* clear interrupt-enable bit
ResetFalls(val) == BitAnd(dev.basic_ctrl, CTRL_RESET) # 0 /\ BitAnd(val, CTRL_RESET) = 0
ResetRises(val) == BitAnd(dev.basic_ctrl, CTRL_RESET) = 0 /\ BitAnd(val, CTRL_RESET) # 0
IrqEnableRises(val) == BitAnd(dev.basic_ctrl, CTRL_IRQ_ENA) = 0 /\ BitAnd(val, CTRL_IRQ_ENA) # 0
ControlWritten(val) == Running /\ CommitMachine(esdi_write_fn(World, 2, val))

\* C18: a control write that takes the reset bit from 1 to 0 while in_reset
\* is clear sets in_reset, sets status to exactly busy and starts the timer
\* with ESDI_TIME * 50, whatever the timer was running for.
C18_FallingEdgeStartsReset ==
    [][\A val \in CtrlVals :
          (ResetFalls(val) /\ dev.in_reset = 0 /\ ControlWritten(val))
          => /\ dev'.in_reset = 1
             /\ dev'.status = STATUS_BUSY
             /\ timer' = Ticks(ESDI_TIME * 50)
             /\ dev'.basic_ctrl = val
             /\ fatal' = "none"]_vars

\* the reset bit fell while the callback of a command was pending
C18_ResetReplacedCommand ==
    /\ ctrl_from.written
    /\ BitAnd(ctrl_from.basic_ctrl, CTRL_RESET) # 0
    /\ ctrl_from.in_reset = 0
    /\ ctrl_from.timer = Ticks(ESDI_TIME)
    /\ BitAnd(dev.basic_ctrl, CTRL_RESET) = 0
    /\ dev.in_reset = 1
    /\ dev.status = STATUS_BUSY
    /\ timer = Ticks(ESDI_TIME * 50)

\* C19: a control write that takes the reset bit from 0 to 1 sets status to
\* exactly busy and stops the timer, leaving in_reset as it was; while the
\* timer is stopped no phase of a command and no reset completion runs, and
\* only a write of the guest starts it again.
C19_RisingEdgeCancels ==
    /\ [][\A val \in CtrlVals :
             (ResetRises(val) /\ ControlWritten(val))
             => /\ dev'.status = STATUS_BUSY
                /\ timer' = 0
                /\ dev'.in_reset = dev.in_reset
                /\ dev'.cmd_state = dev.cmd_state
                /\ dev'.basic_ctrl = val]_vars
    /\ [][(timer = 0 /\ timer' = 0)
          => /\ dev'.in_reset = dev.in_reset
             /\ dev'.cmd_state = dev.cmd_state
             /\ dev'.irq_status = dev.irq_status
             /\ dev'.status_data = dev.status_data
             /\ dev'.irq_in_progress <= dev.irq_in_progress
             /\ err' = err]_vars
    /\ [][(timer = 0 /\ timer' # 0)
          => \/ \E val \in CtrlVals : ControlWritten(val)
             \/ \E val \in AttnVals : CommitMachine(esdi_write_fn(World, 3, val))
             \/ \E val \in WordsAt(dev) : CommitMachine(esdi_writew_fn(World, 0, val))]_vars

\* the reset bit rose while the callback of a command was pending
C19_CommandCancelled ==
    /\ ctrl_from.written
    /\ BitAnd(ctrl_from.basic_ctrl, CTRL_RESET) = 0
    /\ ctrl_from.in_reset = 0
    /\ ctrl_from.timer = Ticks(ESDI_TIME)
    /\ BitAnd(dev.basic_ctrl, CTRL_RESET) # 0
    /\ dev.in_reset = 0
    /\ dev.status = STATUS_BUSY
    /\ dev.command = CMD_GET_POS_INFO
    /\ dev.cmd_state = 0
    /\ timer = 0

\* C20: irq_in_progress and irq_ena_disable both record an interrupt that
\* was raised and not yet ended by an EOI; a control write that sets the
\* interrupt-enable bit when it was clear drives the line to asserted if
\* there is one and to de-asserted if there is none.
C20_EnableDeliversInterrupt ==
    /\ [](dev.irq_in_progress = dev.irq_ena_disable)
    /\ [][\A val \in CtrlVals :
             (IrqEnableRises(val) /\ ControlWritten(val))
             => irq_line' = IF dev.irq_in_progress # 0 THEN 1 ELSE 0]_vars

\* an interrupt raised with interrupts disabled was delivered on enabling
C20_LateDelivery ==
    /\ ctrl_from.written
    /\ BitAnd(ctrl_from.basic_ctrl, CTRL_IRQ_ENA) = 0
    /\ ctrl_from.irq_line = 0
    /\ BitAnd(dev.basic_ctrl, CTRL_IRQ_ENA) # 0
    /\ dev.irq_in_progress = 1
    /\ dev.irq_status = BitOr(IRQ_HOST_ADAPTER, IRQ_CMD_COMPLETE_SUCCESS)
    /\ irq_line = 1

(* ---------------------------------------------------------------------- *)
(* The attention register                                                 *)
(* ---------------------------------------------------------------------- *)
\* The guest writes any attention: the three targets and one the adapter
\* does not know, with the three requests, a request the adapter does not
\* know, and no request.
UnknownTarget == 64
UnknownRequest == 3
AllAttnVals ==
    {t + r : t \in Targets \cup {UnknownTarget},
             r \in {0, ATTN_CMD_REQ, ATTN_EOI, ATTN_RESET, UnknownRequest}}
AttnProg == {Short(CMD_GET_POS_INFO, ATTN_HOST_ADAPTER, 0), Short(CMD_GET_DEV_STATUS, ATTN_DEVICE_0, 0)}

InitAttn == Boot /\ timer # 0 /\ prog = AttnProg

NextAttn ==
    \/ WriteAttention(AllAttnVals)
    \/ WriteCommandWord
    \/ ReadStatusWord
    \/ TimerFire

SpecAttn == InitAttn /\ [][NextAttn]_vars

AttnTarget(val) == BitAnd(val, ATTN_DEVICE_SEL)
AttnRequest(val) == BitAnd(val, ATTN_REQ_MASK)

\* C21: an attention with target host adapter and request reset sets
\* in_reset, sets status to exactly busy and starts the timer with
\* ESDI_TIME * 50, changing nothing else; a reset for drive 0 or drive 1, a
\* request other than command request, EOI and reset, and a target other
\* than the adapter and the two drives are fatal and change nothing.
C21_AttentionResetAndViolations ==
    [][\A val \in AllAttnVals :
          (Running /\ Commit(esdi_write_fn(World, 3, val)))
          => IF AttnTarget(val) = ATTN_HOST_ADAPTER /\ AttnRequest(val) = ATTN_RESET
             THEN /\ fatal' = "none"
                  /\ dev' = [dev EXCEPT !.in_reset = 1, !.status = STATUS_BUSY]
                  /\ timer' = Ticks(ESDI_TIME * 50)
                  /\ irq_line' = irq_line
             ELSE IF AttnTarget(val) \in Targets /\ AttnRequest(val) \in {ATTN_CMD_REQ, ATTN_EOI}
             THEN fatal' \in {"none", "Try to start command on in_progress"}
             ELSE /\ fatal' = IF AttnTarget(val) \in Targets
                              THEN "Bad attention request"
                              ELSE "Attention to unknown device"
                  /\ dev' = dev /\ timer' = timer /\ irq_line' = irq_line]_vars

\* a position-information command was running when the guest asked the
\* adapter for a reset
C21_ResetByAttention ==
    /\ Running
    /\ dev.in_reset = 1
    /\ dev.status = STATUS_BUSY
    /\ timer = Ticks(ESDI_TIME * 50)
    /\ dev.irq_status = BitOr(IRQ_HOST_ADAPTER, IRQ_RESET_COMPLETE)
    /\ dev.command = CMD_GET_POS_INFO
    /\ dev.cmd_dev = ATTN_HOST_ADAPTER
    /\ dev.cmd_req_in_progress = 0
    /\ dev.status_len = 1

\* C22: a read of port 2 returns status and changes nothing; a read of port
\* 3 returns irq_status and changes nothing but the IRQ bit of status, which
\* it clears: irq_in_progress, the interrupt line, the queues, cmd_state and
\* the timer stay as they are.
C22_RegisterReads ==
    [][\A port \in {2, 3} :
          (Running /\ Commit(esdi_read_fn(World, port)))
          => /\ fatal' = "none"
             /\ timer' = timer
             /\ irq_line' = irq_line
             /\ image' = image
             /\ IF port = 2
                THEN /\ esdi_read_ret(World, port) = dev.status
                     /\ dev' = dev
                ELSE /\ esdi_read_ret(World, port) = dev.irq_status
                     /\ dev' = [dev EXCEPT !.status = BitClear(dev.status, STATUS_IRQ)]
                     /\ dev'.irq_in_progress = dev.irq_in_progress
                     /\ dev'.irq_ena_disable = dev.irq_ena_disable]_vars

\* the interrupt status of a completed command was read while the interrupt
\* was raised and asserted: the IRQ bit is gone, the interrupt is not
C22_InterruptStatusRead ==
    /\ Running
    /\ dev.status = STATUS_STATUS_OUT_FULL
    /\ dev.irq_in_progress = 1
    /\ dev.irq_status = BitOr(dev.cmd_dev, IRQ_CMD_COMPLETE_SUCCESS)
    /\ esdi_read_ret(World, 3) = dev.irq_status
    /\ irq_line = 1
    /\ timer = 0

(* ---------------------------------------------------------------------- *)
(* A WRITE and a READ of the same sectors                                 *)
(* ---------------------------------------------------------------------- *)
\* The driver writes and reads the same sectors of drive 0, in any order
\* and as often as it likes.
TripProgs ==
    {{Long(CMD_WRITE, ATTN_DEVICE_0, n, a), Long(CMD_READ, ATTN_DEVICE_0, n, a)} :
        n \in Counts, a \in Addrs}

InitTrip == Boot /\ timer # 0 /\ prog \in TripProgs

SpecTrip == InitTrip /\ [][NextExec]_vars

\* The words a WRITE of n sectors takes from the DMA channel.
WordsTaken(n) == [k \in 1 .. n * SectorWords |-> DmaWord(k - 1)]
\* The sectors of drive 0 a transfer of the address and count in the adapter covers.
SectorsCovered == {<<0, start_rba + k>> : k \in 0 .. dev.sector_count - 1}
\* A READ ran to completion over sectors a WRITE has stored.
ReadBackDone ==
    /\ dev.command = CMD_READ
    /\ dev.cmd_dev = ATTN_DEVICE_0
    /\ dev.cmd_state = 2
    /\ dev.irq_status = BitOr(ATTN_DEVICE_0, IRQ_CMD_COMPLETE_SUCCESS)
    /\ dev.sector_count >= 1
    /\ SectorsCovered \subseteq DOMAIN image

\* C23: when a READ of (address, count) has run to completion after a WRITE
\* of the same sectors ran to completion, the words handed to the DMA channel
\* are the words the WRITE took from it, in the same order, and every sector
\* outside address .. address + count - 1 is as it was.
C23_WriteThenReadRoundTrip ==
    ReadBackDone
    => /\ dma_out = WordsTaken(dev.sector_count)
       /\ DOMAIN image = SectorsCovered
       /\ zeroed = {}
       /\ start_rba + dev.sector_count <= Drive0.sectors
       /\ \A s \in {0, start_rba - 1, start_rba + dev.sector_count} :
             (s >= 0 /\ <<0, s>> \notin SectorsCovered)
                => ImageSector(World, 0, s) = InitSector(0, s)

\* MaxCount sectors from sector 0 were written and read back through a stall
C23_ReadBackAfterStall ==
    /\ ReadBackDone
    /\ start_rba = 0
    /\ dev.sector_count = MaxCount
    /\ resumed
    /\ Len(dma_out) = MaxCount * SectorWords
    /\ dma_out[1] = DmaWord(0)
    /\ image[<<0, MaxCount - 1>>][SectorWords - 1] = DmaWord(MaxCount * SectorWords - 1)

(* ---------------------------------------------------------------------- *)
(* A driver that never ends an interrupt                                  *)
(* ---------------------------------------------------------------------- *)
NextNoEoi ==
    \/ WriteControl(ExecCtrlVals)
    \/ DriverRequest
    \/ DriverWord
    \/ TimerFire

SpecNoEoi == InitExec /\ [][NextNoEoi]_vars

\* C24: the callback of a command never latches a new interrupt status
\* while irq_in_progress is still set from an interrupt the guest has not
\* ended with an EOI.
C24_InterruptsNeverOverlap ==
    [][(dev.in_reset = 0 /\ dev.irq_in_progress # 0 /\ TimerFire)
       => dev'.irq_status = dev.irq_status]_vars

\* a READ latched command-complete over its data-transfer-ready interrupt,
\* which no EOI had ended
C24_CompleteOverTransferReady ==
    /\ Running
    /\ dev.command = CMD_READ
    /\ dev.cmd_state = 2
    /\ dtr_latched
    /\ dev.irq_in_progress = 1
    /\ dev.irq_status = BitOr(ATTN_DEVICE_0, IRQ_CMD_COMPLETE_SUCCESS)
    /\ dev.status = BitOr(STATUS_IRQ, STATUS_STATUS_OUT_FULL)

\* the commands whose phase 1 waits for the DMA enable
DmaOps == {CMD_READ, CMD_15, CMD_WRITE, CMD_WRITE_VERIFY, CMD_FORMAT_UNIT, CMD_FORMAT_PREPARE,
           CMD_WRITE_SECTOR_BUFFER, CMD_READ_SECTOR_BUFFER}
\* Phase 1 of such a command is to run.
Phase1Pending ==
    /\ Running
    /\ dev.in_reset = 0
    /\ dev.command \in DmaOps
    /\ dev.cmd_state = 1
    /\ err = <<>>

\* C25: while CTRL_DMA_ENA is clear, a callback in phase 1 of a READ, WRITE,
\* WRITE-VERIFY, format or sector-buffer command starts the timer again with
\* ESDI_TIME and changes nothing of the adapter, the image and the DMA
\* channel; and in phase 1 the timer is always running.
C25_TransferWaitsForDma ==
    /\ [][(Phase1Pending /\ BitAnd(dev.basic_ctrl, CTRL_DMA_ENA) = 0 /\ TimerFire)
          => /\ timer' = Ticks(ESDI_TIME)
             /\ dev' = dev
             /\ image' = image /\ zeroed' = zeroed
             /\ dma_out' = dma_out /\ dma_in' = dma_in
             /\ irq_line' = irq_line
             /\ fatal' = "none"]_vars
    /\ [](Phase1Pending => timer # 0)

\* a READ that had handed out its first sector waited with the DMA disabled
C25_ReadHeldAfterFirstSector ==
    /\ Phase1Pending
    /\ dev.command = CMD_READ
    /\ BitAnd(dev.basic_ctrl, CTRL_DMA_ENA) = 0
    /\ dev.sector_count = MaxCount
    /\ dev.sector_pos = 1
    /\ dev.data_pos = 0
    /\ Len(dma_out) = SectorWords
    /\ timer = Ticks(ESDI_TIME)

(* ---------------------------------------------------------------------- *)
(* The sector-buffer commands                                             *)
(* ---------------------------------------------------------------------- *)
\* The driver fills the scratch area and reads it back, n sectors each, or
\* writes all of it, or asks for one sector more than it has.
BufferProgs ==
    {{Short(CMD_WRITE_SECTOR_BUFFER, ATTN_HOST_ADAPTER, n),
      Short(CMD_READ_SECTOR_BUFFER, ATTN_HOST_ADAPTER, n)} : n \in Counts}
    \cup {{Short(CMD_WRITE_SECTOR_BUFFER, ATTN_HOST_ADAPTER, SECTOR_BUFFER_SECTORS)},
          {Short(CMD_WRITE_SECTOR_BUFFER, ATTN_HOST_ADAPTER, SECTOR_BUFFER_SECTORS + 1)},
          {Short(CMD_READ_SECTOR_BUFFER, ATTN_HOST_ADAPTER, SECTOR_BUFFER_SECTORS + 1)}}

InitBuffer == Boot /\ timer # 0 /\ prog \in BufferProgs

SpecBuffer == InitBuffer /\ [][NextExec]_vars

\* Words 0 .. SectorWords - 1 of the scratch sectors 0 .. n - 1, in order.
BufferWords(n) ==
    [k \in 1 .. n * SectorWords |->
        ScratchSector(dev, (k - 1) \div SectorWords)[(k - 1) % SectorWords]]

\* C26: when command 0x11 with count n <= 256 has ended phase 1, the DMA
\* channel was handed the words of the scratch sectors 0 .. n - 1, in order
\* and each once, whatever the DMA channel stalled on.
C26_ReadBufferDeliversAll ==
    (/\ dev.command = CMD_READ_SECTOR_BUFFER
     /\ dev.cmd_dev = ATTN_HOST_ADAPTER
     /\ dev.cmd_state = 2
     /\ dev.sector_count <= SECTOR_BUFFER_SECTORS)
    => dma_out = BufferWords(dev.sector_count)

\* command 0x11 for one sector completed after its first word only
C26_SectorCutShort ==
    /\ Running
    /\ dev.command = CMD_READ_SECTOR_BUFFER
    /\ dev.cmd_state = 2
    /\ dev.irq_status = BitOr(IRQ_HOST_ADAPTER, IRQ_CMD_COMPLETE_SUCCESS)
    /\ dev.sector_count = 1
    /\ dev.sector_pos = 1
    /\ Len(dma_out) = 1
    /\ 0 \in DOMAIN dev.sector_buffer

BufferOps == {CMD_WRITE_SECTOR_BUFFER, CMD_READ_SECTOR_BUFFER}
\* Phase 0 of a sector-buffer command for the adapter is to run.
BufferPhase0Pending ==
    /\ CommandPending
    /\ dev.command \in BufferOps
    /\ dev.cmd_dev = ATTN_HOST_ADAPTER
    /\ dev.cmd_state = 0

\* C27: phase 0 of command 0x10 or 0x11 with a count above 256 is fatal
\* before a word is exchanged with the DMA channel or a scratch sector is
\* touched; in phase 1 and 2 of these commands sector_pos <= sector_count <=
\* 256, so the scratch sector used is one of 0 .. 255, and no other is ever
\* written.
C27_ScratchIndexBounded ==
    /\ [][(BufferPhase0Pending /\ dev.cmd_data[1] > SECTOR_BUFFER_SECTORS /\ TimerFire)
          => /\ fatal' \in {"Write sector buffer count", "Read sector buffer count"}
             /\ dma_out' = <<>> /\ dma_in' = 0
             /\ dev'.sector_buffer = dev.sector_buffer
             /\ dev'.cmd_state = 0]_vars
    /\ []((dev.command \in BufferOps /\ dev.cmd_dev = ATTN_HOST_ADAPTER /\ dev.cmd_state \in {1, 2})
          => /\ dev.sector_count <= SECTOR_BUFFER_SECTORS
             /\ dev.sector_pos <= dev.sector_count)
    /\ [](DOMAIN dev.sector_buffer \subseteq 0 .. SECTOR_BUFFER_SECTORS - 1)
    /\ [][(dev.command \in BufferOps /\ dev.sector_pos' # dev.sector_pos /\ dev.sector_pos' # 0)
          => /\ dev.sector_pos < dev.sector_pos'
             /\ dev.sector_pos' - 1 \in 0 .. SECTOR_BUFFER_SECTORS - 1]_vars

\* command 0x11 for 257 sectors ended in phase 0 with nothing handed out
C27_OversizeCountFatal ==
    /\ fatal = "Read sector buffer count"
    /\ dev.command = CMD_READ_SECTOR_BUFFER
    /\ dev.cmd_dev = ATTN_HOST_ADAPTER
    /\ dev.cmd_data[1] = SECTOR_BUFFER_SECTORS + 1
    /\ dev.cmd_state = 0
    /\ dma_out = <<>>
    /\ dev.sector_buffer = <<>>

\* Phase 1 of a READ or WRITE of a drive is under way, phase 0 having found
\* the address and count within the drive.
TransferUnderWay ==
    /\ dev.in_reset = 0
    /\ dev.command \in TransferOps
    /\ IsDriveTarget(World)
    /\ dev.cmd_state = 1
    /\ err = <<>>

\* C28: in phase 1 of a READ or WRITE that phase 0 let pass, the sectors
\* still to be transferred end within the drive, so the sector the loop
\* reads or writes next lies below drive->sectors, and neither of the two
\* "past end of drive" fatals is ever met.
C28_TransferStaysInDrive ==
    /\ fatal \notin {"Read past end of drive", "Write past end of drive"}
    /\ TransferUnderWay
         => /\ dev.rba + (dev.sector_count - dev.sector_pos) <= SelDrive(World).sectors
            /\ dev.sector_pos < dev.sector_count => dev.rba < SelDrive(World).sectors
            /\ \A x \in DOMAIN image : x[2] < drives[x[1] + 1].sectors

\* a WRITE stored the last sector of drive 0 and stands at the end of the drive
C28_LastSectorWritten ==
    /\ Running
    /\ dev.command = CMD_WRITE
    /\ dev.cmd_dev = ATTN_DEVICE_0
    /\ dev.cmd_state = 2
    /\ start_rba = Drive0.sectors - 1
    /\ dev.sector_count = 1
    /\ dev.rba = Drive0.sectors
    /\ <<0, Drive0.sectors - 1>> \in DOMAIN image

(* ---------------------------------------------------------------------- *)
(* A SEEK after a READ                                                    *)
(* ---------------------------------------------------------------------- *)
\* The driver reads one sector of drive 0, at its start or its end, and
\* seeks to its start or its end, in any order.
SeekProgs ==
    {{Long(CMD_READ, ATTN_DEVICE_0, 1, a), Long(CMD_SEEK, ATTN_DEVICE_0, 0, s)} :
        a \in {0, Drive0.sectors - 1}, s \in {0, Drive0.sectors}}

InitSeek == Boot /\ timer # 0 /\ prog \in SeekProgs

SpecSeek == InitSeek /\ [][NextExec]_vars

\* A SEEK of drive 0 is the last command taken, and its words are in the queue.
SeekTaken ==
    /\ dev.in_reset = 0
    /\ dev.command = CMD_SEEK
    /\ dev.cmd_dev = ATTN_DEVICE_0
    /\ dev.cmd_pos = 0

\* C29: a SEEK of a present drive ends with address-out-of-range only when
\* the address in the seek command lies beyond the drive, and with
\* command-complete-success only when it does not, whatever rba and
\* sector_count earlier commands left.
C29_SeekJudgedByItsAddress ==
    SeekTaken
    => /\ err # <<>> => (err = <<3585, 7>> /\ DecodeRba(dev) >= Drive0.sectors)
       /\ (dev.cmd_state = 1 /\ dev.irq_status = BitOr(ATTN_DEVICE_0, IRQ_CMD_COMPLETE_SUCCESS))
            => DecodeRba(dev) <= Drive0.sectors

\* a SEEK to sector 0 ended out of range after a READ of the last sector
C29_SeekToStartRefused ==
    /\ SeekTaken
    /\ err = <<3585, 7>>
    /\ DecodeRba(dev) = 0
    /\ dev.cmd_state = 0
    /\ dev.rba = Drive0.sectors
    /\ dev.sector_count = 1
    /\ dev.irq_status = BitOr(ATTN_DEVICE_0, IRQ_CMD_COMPLETE_FAILURE)

\* Word 0 of the status block in d carries the opcode, the length of the
\* block and the target.
BlockHeaderOf(d, opcode, target) ==
    /\ BitAnd(d.status_data[0], CMD_MASK) = opcode
    /\ Shr(d.status_data[0], 8) = d.status_len
    /\ BitAnd(d.status_data[0], CMD_DEVICE_SEL) = target

\* C30: whenever a callback loads a status block, bits 4-0 of word 0 are
\* the opcode of the command (none for the reset), bits 15-8 are status_len,
\* and bits 7-5 are the selected target (the adapter for the reset).
C30_StatusBlockHeader ==
    [][(TimerFire /\ (dev'.status_len # dev.status_len \/ dev'.status_data # dev.status_data))
       => IF dev.in_reset # 0
          THEN BlockHeaderOf(dev', 0, ATTN_HOST_ADAPTER)
          ELSE BlockHeaderOf(dev', dev.command, dev.cmd_dev)]_vars

\* command 0x12 loaded two words under a header that declares five
C30_LengthFiveForTwoWords ==
    /\ Running
    /\ dev.command = CMD_12
    /\ dev.cmd_dev = ATTN_HOST_ADAPTER
    /\ dev.irq_status = BitOr(IRQ_HOST_ADAPTER, IRQ_CMD_COMPLETE_SUCCESS)
    /\ dev.status_len = 2
    /\ Shr(dev.status_data[0], 8) = 5
    /\ BitAnd(dev.status_data[0], CMD_MASK) = CMD_12

(* ---------------------------------------------------------------------- *)
(* Formatting a drive that holds data                                     *)
(* ---------------------------------------------------------------------- *)
FormatOps == {CMD_FORMAT_UNIT, CMD_FORMAT_PREPARE}

\* The driver writes one sector of drive 0, formats the drive with one of
\* the two format commands, and reads the sector, in any order.
FormatProgs ==
    {{Long(CMD_WRITE, ATTN_DEVICE_0, 1, a), Short(op, ATTN_DEVICE_0, 0),
      Long(CMD_READ, ATTN_DEVICE_0, 1, a)} : op \in FormatOps, a \in {0, Drive0.sectors - 1}}

InitFormat == Boot /\ timer # 0 /\ prog \in FormatProgs

SpecFormat == InitFormat /\ [][NextExec]_vars

\* Phase k of a format command of drive 0 is to run.
FormatPending(k) ==
    /\ Running
    /\ dev.in_reset = 0
    /\ dev.command \in FormatOps
    /\ dev.cmd_dev = ATTN_DEVICE_0
    /\ dev.cmd_state = k
    /\ timer # 0

\* Every sector of drive 0 reads as zeroes.
DriveBlank ==
    /\ 0 \in zeroed
    /\ \A x \in DOMAIN image : x[1] # 0
    /\ \A s \in {0, 299, Drive0.sectors - 1, Drive0.sectors} : ImageSector(World, 0, s) = ZeroSector

ImageKept == image' = image /\ zeroed' = zeroed

\* the setup and the completion of a format command, and its wait for the DMA
FormatFrame ==
    /\ [][(FormatPending(0) /\ TimerFire)
          => /\ dev'.cmd_state = 1
             /\ dev'.rba = Drive0.sectors
             /\ dev'.irq_status = BitOr(ATTN_DEVICE_0, IRQ_DATA_TRANSFER_READY)
             /\ timer' = Ticks(ESDI_TIME)
             /\ ImageKept]_vars
    /\ [][(FormatPending(1) /\ ~DmaEnabled(World) /\ TimerFire)
          => /\ dev'.cmd_state = 1
             /\ timer' = Ticks(ESDI_TIME)
             /\ ImageKept]_vars
    /\ [][(FormatPending(1) /\ DmaEnabled(World) /\ TimerFire)
          => /\ dev'.cmd_state = 2
             /\ dev'.status = STATUS_CMD_IN_PROGRESS
             /\ timer' = Ticks(ESDI_TIME)]_vars
    /\ [][(FormatPending(2) /\ TimerFire)
          => /\ dev'.irq_status = BitOr(ATTN_DEVICE_0, IRQ_CMD_COMPLETE_SUCCESS)
             /\ dev'.status = BitOr(STATUS_IRQ, STATUS_STATUS_OUT_FULL)
             /\ timer' = 0
             /\ ImageKept]_vars

\* C31: both format commands of a present drive run setup, transfer and
\* completion, and the callback of phase 1 with the DMA enabled leaves every
\* sector of the drive, 0 through the last, reading as zeroes; the callbacks
\* before it leave the image as it was.
C31_BothFormatsZeroFill ==
    /\ FormatFrame
    /\ [][(FormatPending(1) /\ DmaEnabled(World) /\ TimerFire) => DriveBlank']_vars

\* C31, amended: both format commands of a present drive run setup, transfer
\* and completion; the callback of phase 1 with the DMA enabled zero-fills
\* the whole drive for FORMAT UNIT and leaves the image as it was for FORMAT
\* PREPARE; every other callback of either command leaves the image as it was.
C31_OnlyFormatUnitZeroFills ==
    /\ FormatFrame
    /\ [][(FormatPending(1) /\ DmaEnabled(World) /\ TimerFire)
          => IF dev.command = CMD_FORMAT_UNIT THEN DriveBlank' ELSE ImageKept]_vars

\* a READ after a FORMAT UNIT handed zeroes to the DMA channel
C31_ReadZeroesAfterFormat ==
    /\ Running
    /\ dev.command = CMD_READ
    /\ dev.cmd_state = 2
    /\ dev.irq_status = BitOr(ATTN_DEVICE_0, IRQ_CMD_COMPLETE_SUCCESS)
    /\ dma_out = [k \in 1 .. SectorWords |-> 0]
    /\ DriveBlank
    /\ InitSector(0, start_rba) # ZeroSector

\* word 5 of the block GET_DEV_CONFIG loads for a drive of h heads and s
\* sectors per track, as the 16-bit status queue keeps it
GeometryWord(h, s) == U16(BitOr(h, Shl(s, 16)))

\* the heads and sectors per track a drive can have
Geometries == {<<h, s>> : h \in 1 .. 16, s \in 1 .. 63}

\* GET_DEV_CONFIG of drive 0 has loaded its status block.
ConfigLoaded ==
    /\ Running
    /\ dev.in_reset = 0
    /\ dev.command = CMD_GET_DEV_CONFIG
    /\ dev.cmd_dev = ATTN_DEVICE_0
    /\ dev.irq_status = BitOr(ATTN_DEVICE_0, IRQ_CMD_COMPLETE_SUCCESS)

\* the words of the block that hold the size of the drive
ConfigSizeWords ==
    ConfigLoaded
    => /\ dev.status_len = 6
       /\ dev.status_data[2] = Drive0.sectors % 65536
       /\ dev.status_data[3] = Drive0.sectors \div 65536
       /\ dev.status_data[4] = Drive0.tracks
       /\ dev.status_data[5] = GeometryWord(Drive0.hpc, Drive0.spt)

\* C32: the block GET_DEV_CONFIG loads for a present drive has 6 words;
\* words 2 and 3 are the low and high half of the sector total, word 4 is
\* the tracks, and word 5 determines both the heads and the sectors per
\* track: no drive of another geometry loads the same word 5.
C32_ConfigBlockRecoversGeometry ==
    /\ ConfigSizeWords
    /\ ConfigLoaded
        => \A g \in Geometries :
              GeometryWord(g[1], g[2]) = dev.status_data[5]
                 => g = <<Drive0.hpc, Drive0.spt>>

\* word 5 of the block of drive 0 is its 8 heads and nothing of its 36
\* sectors per track
C32_SectorsPerTrackLost ==
    /\ ConfigLoaded
    /\ dev.status_len = 6
    /\ dev.status_data[5] = Drive0.hpc
    /\ Drive0.spt = 36
    /\ dev.status_data[5] = GeometryWord(Drive0.hpc, 17)

(* ---------------------------------------------------------------------- *)
(* A guest that writes command words and never a command request          *)
(* ---------------------------------------------------------------------- *)
\* The guest writes the words of its command, ends interrupts, reads the
\* registers and the status words and sets the enables; it never writes a
\* command-request attention, so cmd_dev stays the 0 of esdi_init.
NextNoRequest ==
    \/ WriteControl(ExecCtrlVals)
    \/ WriteAttention(EoiVals)
    \/ WriteCommandWord
    \/ ReadStatusWord
    \/ ReadRegister
    \/ TimerFire

SpecNoRequest == Init /\ [][NextNoRequest]_vars

\* C33: the executor is started only by command words that follow an accepted
\* command-request attention: a command-word write with no request in flight
\* (cmd_req_in_progress clear) starts no timer, takes no command and changes
\* neither the executor phase nor the status register.
C33_WordsNeedRequest ==
    [][(dev.in_reset = 0 /\ dev.cmd_req_in_progress = 0 /\ WriteCommandWord)
       => /\ timer' = timer
          /\ dev'.command = dev.command
          /\ dev'.cmd_state = dev.cmd_state
          /\ dev'.status = dev.status]_vars

\* a READ of drive 0 ran to completion though no command request was ever
\* written: the target was the cmd_dev esdi_init left
C33_ReadRanWithoutRequest ==
    /\ Running
    /\ dev.in_reset = 0
    /\ dev.cmd_req_in_progress = 0
    /\ dev.command = CMD_READ
    /\ dev.cmd_dev = ATTN_DEVICE_0
    /\ dev.cmd_state = 2
    /\ dev.irq_status = BitOr(ATTN_DEVICE_0, IRQ_CMD_COMPLETE_SUCCESS)
    /\ Len(dma_out) = SectorWords

\* the commands that answer from the adapter's own state in one callback
QueryOps == {CMD_GET_DEV_STATUS, CMD_GET_DEV_CONFIG, CMD_GET_POS_INFO, CMD_12}

\* The callback of a query is to run, and the target of the query is one the
\* command takes: a present drive for GET_DEV_STATUS, a present drive or the
\* adapter for GET_DEV_CONFIG, the adapter for GET_POS_INFO and 0x12.
QueryPending ==
    /\ Running
    /\ dev.in_reset = 0
    /\ timer # 0
    /\ dev.command \in QueryOps
    /\ IF dev.cmd_dev = ATTN_HOST_ADAPTER
       THEN dev.command # CMD_GET_DEV_STATUS
       ELSE /\ dev.command \in {CMD_GET_DEV_STATUS, CMD_GET_DEV_CONFIG}
            /\ SelDrive(World).present = 1

\* C34: the callback of GET_DEV_STATUS, GET_DEV_CONFIG, GET_POS_INFO or 0x12
\* on a target the command takes is fatal when irq_in_progress is still set,
\* and otherwise latches command-complete-success for the target, raises the
\* interrupt and leaves the timer stopped.
C34_QueriesCompleteInOneCallback ==
    [][(QueryPending /\ TimerFire)
       => IF dev.irq_in_progress # 0
          THEN fatal' = "IRQ in progress" /\ dev' = dev
          ELSE /\ fatal' = "none"
               /\ dev'.irq_status = BitOr(dev.cmd_dev, IRQ_CMD_COMPLETE_SUCCESS)
               /\ dev'.irq_in_progress = 1
               /\ dev'.status = BitOr(STATUS_IRQ, STATUS_STATUS_OUT_FULL)
               /\ dev'.status_pos = dev.status_pos
               /\ dev'.cmd_state = 0
               /\ timer' = 0]_vars

\* GET_DEV_CONFIG of drive 0 met the interrupt of the one before, which no
\* EOI had ended
C34_QueryOverOpenInterrupt ==
    /\ fatal = "IRQ in progress"
    /\ dev.command = CMD_GET_DEV_CONFIG
    /\ dev.cmd_dev = ATTN_DEVICE_0
    /\ dev.irq_in_progress = 1
    /\ dev.status = STATUS_BUSY
    /\ dev.irq_status = BitOr(ATTN_DEVICE_0, IRQ_CMD_COMPLETE_SUCCESS)
    /\ timer = 0
====
